---- MODULE Spec2Model ----
(***************************************************************************)
(* Verification model of the agentsdk-go runtime kernel.                   *)
(*                                                                         *)
(* Part I  : pkg/session  - FileSession over a write-ahead log             *)
(* Part II : pkg/approval - Queue, Whitelist and the WAL-backed RecordLog  *)
(*                                                                         *)
(* The package pkg/wal (wal.Open / Append / Sync / Truncate / Replay) is   *)
(* not part of the sources at hand; its operators below follow section 4.7 *)
(* of the specification.                                                   *)
(***************************************************************************)
EXTENDS Integers, Sequences, FiniteSets, TLC

VARIABLES
    wlog,       \* the session's WAL directory: [entries, next, synced]
    fs,         \* the FileSession object (fields of the Go struct)
    handle,     \* "live": a FileSession object exists; "none": it does not
    lastOp,     \* the last call made on the session and how it returned
    taken,      \* history: checkpoint name -> the transcript when Checkpoint(name) last
                \* succeeded, and whether the session was reopened since
    appended,   \* history: the messages of the successful Appends since the last Resume
    io          \* this behaviour's I/O: how many more WAL writes may fail (budget)
                \* and how many positions the WAL may allocate (cap)

svars == <<wlog, fs, handle, lastOp, taken, appended, io>>

VARIABLES
    qwal,       \* the record log's WAL directory: [entries, next, synced]
    rl,         \* the RecordLog object: records, positions, entrySize, nextPosition
    q,          \* the Queue object: index, pending, whitelist (its keys)
    issued,     \* how many record ids newID has handed out
    qLast,      \* the last call made on the queue and how it returned
    hist,       \* history: the (session, tool, params) of the requests an Approve
                \* approved, and of those a Reject or Timeout denied
    qio         \* this behaviour's I/O: how many more record-log writes may fail
                \* (budget) and how many records the queue may issue (cap)

qvars == <<qwal, rl, q, issued, qLast, hist, qio>>

VARIABLE
    fn          \* one call of a function of the program: its name, its arguments,
                \* how far it has run and, once it has returned (done), its result

VARIABLES
    cw,         \* the channel WAL of pkg/session: the log directory of every channel
                \* (logs) and the latest cursors of the WAL object (latest)
    thr,        \* the goroutines that call WAL.Append, each idle or between
                \* log.Append and the update of w.latest
    cwLast,     \* the last step taken on the channel WAL and, for a ReadSince,
                \* its arguments and the entries handed to the callback
    cwHist      \* history: the entries a Sync made durable (acked), per channel the
                \* highest position a completed Append returned (done), the highest
                \* Truncate argument (cut) and the payload last appended at each
                \* position (written)

cvars == <<cw, thr, cwLast, cwHist>>

VARIABLES
    middlewares,    \* Stack.middlewares of pkg/middleware
    registered,     \* history: the middlewares of the stack in the order of
                    \* their Use calls
    mwLast          \* the last call on the Stack and the order in which it
                    \* called the middlewares and the final handler

mvars == <<middlewares, registered, mwLast>>

vars == <<svars, qvars, fn, cvars, mvars>>

\* what the operations of one component leave alone
nonSession == <<qvars, fn, cvars, mvars>>

nonQueue == <<svars, fn, cvars, mvars>>

nonFn == <<svars, qvars, cvars, mvars>>

nonChannel == <<svars, qvars, fn, mvars>>

nonStack == <<svars, qvars, fn, cvars>>

----------------------------------------------------------------------------
(* Bounds of the model *)

\* positions a session WAL may allocate
MaxWalPos == 5

\* WAL writes that may fail in one behaviour of SpecFaults
MaxFaults == 1

\* positions a session WAL may allocate in SpecFaults
MaxWalPosFaults == 4

\* records an approval queue may issue
MaxRecords == 3

\* records an approval queue may issue in SpecQueueFaults
MaxRecordsFaults == 2

\* entries computeKeepStart is given in SpecKeep
MaxEntries == 3

\* the latest day of SpecKeep: request times are days 1..MaxDay, GC runs on MaxDay
MaxDay == 4

\* middlewares a Stack may hold
MaxMiddlewares == 3

\* positions the progress channel of the channel WAL may allocate
MaxCwPos == 3

\* positions the control channel of the channel WAL may allocate
MaxCwPosControl == 1

----------------------------------------------------------------------------
(* Small helpers *)

Put(f, k, v) == [x \in (DOMAIN f) \cup {k} |-> IF x = k THEN v ELSE f[x]]

EmptyMap == [x \in {} |-> 0]

MinOf(S) == CHOOSE m \in S : \A x \in S : m <= x

\* strings.TrimSpace on the inputs the model draws (blank strings collapse to "")
TrimSpace(str) == IF str \in {"", " "} THEN "" ELSE str

\* fmt's %06d for the sequence numbers the model reaches
Sprintf06d(n) == IF n < 10 THEN "00000" \o ToString(n) ELSE "0000" \o ToString(n)

----------------------------------------------------------------------------
(* time.Time: an instant and a location.  t = 0 is the zero time. *)

ZeroTime == [t |-> 0, loc |-> "UTC"]

IsZero(ts) == ts.t = 0

UTC(ts) == [t |-> ts.t, loc |-> "UTC"]

\* encoding/json writes RFC 3339 with the zone offset; reading it back gives
\* UTC for offset 0 and a fixed zone otherwise.
MarshalTime(ts) == [t |-> ts.t, offset |-> IF ts.loc = "UTC" THEN 0 ELSE 8]

UnmarshalTime(j) == [t |-> j.t, loc |-> IF j.offset = 0 THEN "UTC" ELSE "Fixed"]

----------------------------------------------------------------------------
(* pkg/wal, after section 4.7 of the specification *)

EmptyWAL == [entries |-> <<>>, next |-> 0, synced |-> 0]

\* Append(entry) -> position: the entry is in the log, not yet durable.
WalAppend(w, type, data) ==
    [w EXCEPT !.entries = Append(@, [position |-> w.next, type |-> type, data |-> data]),
              !.next = @ + 1]

\* Sync(): everything appended so far is durable.
WalSync(w) == [w EXCEPT !.synced = w.next]

\* a truncation that leaves the entry before the argument in the log
WalTruncate_KeepsOneMore(w, upto) ==
    [w EXCEPT !.entries = SelectSeq(@, LAMBDA e : e.position >= upto - 1)]

\* Truncate(position): removes all entries with position < argument.
WalTruncate(w, upto) ==
    [w EXCEPT !.entries = SelectSeq(@, LAMBDA e : e.position >= upto)]

\* a reopen that also loses the last durable entry
WalOpen_LosesDurable(w, keep) ==
    [entries |-> SelectSeq(w.entries, LAMBDA e : e.position < keep - 1),
     next    |-> keep,
     synced  |-> keep]

\* Open of an existing directory: the durable entries are there; of the
\* entries appended but never synced, those from position `keep` on are lost.
WalOpen(w, keep) ==
    [entries |-> SelectSeq(w.entries, LAMBDA e : e.position < keep),
     next    |-> keep,
     synced  |-> keep]

\* How much of the log a reopen may find.
WalKeepChoices(w) == w.synced .. w.next

----------------------------------------------------------------------------
(* Part I: pkg/session *)

SessionID == "s"

CheckpointNames == {"a", "b"}

recordMessage == "message"
recordCheckpoint == "checkpoint"
recordResume == "resume"
recordApproval == "approval"

\* MaxCheckpointBytes bounds serialized checkpoint payloads to 1MB.
MaxCheckpointBytes == 1048576

channelForKind(kind) ==
    CASE kind = recordMessage -> "progress"
      [] kind \in {recordCheckpoint, recordResume} -> "control"
      [] kind = recordApproval -> "monitor"
      [] OTHER -> "progress"

\* normalizeCheckpointName: a valid name is returned, anything else is an error.
normalizeCheckpointName(name) ==
    IF TrimSpace(name) \in CheckpointNames
    THEN [ok |-> TRUE, name |-> TrimSpace(name)]
    ELSE [ok |-> FALSE, name |-> ""]

\* json.Marshal / json.Unmarshal of one Message
MarshalMessage(m) ==
    [id |-> m.id, role |-> m.role, timestamp |-> MarshalTime(m.ts), len |-> m.len]

UnmarshalMessage(j) ==
    [id |-> j.id, role |-> j.role, ts |-> UnmarshalTime(j.timestamp), len |-> j.len]

\* encodeCheckpointMessages: the JSON array of the messages
encodeCheckpointMessages(msgs) == [i \in 1..Len(msgs) |-> MarshalMessage(msgs[i])]

RECURSIVE SumLen(_, _)
SumLen(msgs, i) == IF i > Len(msgs) THEN 0 ELSE msgs[i].len + SumLen(msgs, i + 1)

\* len(statePayload): "[]" for no message, else brackets, messages and commas
PayloadLen(msgs) ==
    IF Len(msgs) = 0 THEN 2 ELSE 2 + SumLen(msgs, 1) + (Len(msgs) - 1)

\* a limit that refuses a payload of exactly MaxCheckpointBytes
checkpointTooLarge_AtLimit(n) == n >= MaxCheckpointBytes

\* Checkpoint: len(statePayload) > MaxCheckpointBytes
checkpointTooLarge(n) == n > MaxCheckpointBytes

\* decodeCheckpointMessages: parse, then normalise every timestamp to UTC
decodeCheckpointMessages(raw) ==
    [i \in 1..Len(raw) |->
        LET m == UnmarshalMessage(raw[i]) IN [m EXCEPT !.ts = UTC(m.ts)]]

\* The FileSession after construction, before reload
NewSession ==
    [messages    |-> <<>>,
     checkpoints |-> EmptyMap,
     approvals   |-> EmptyMap,
     seq         |-> 0,
     cursors     |-> EmptyMap,
     next        |-> 0,
     closed      |-> FALSE]

\* appendRecord: marshal, wal.Append, wal.Sync, then move the cursor.
\* fault: "ok", "append" (wal.Append fails) or "sync" (wal.Sync fails).
appendRecord(s, w, kind, data, fault) ==
    IF fault = "append"
    THEN [s |-> s, w |-> w, pos |-> 0, err |-> TRUE]
    ELSE LET pos == w.next
             w1  == WalAppend(w, kind, data)
         IN  IF fault = "sync"
             THEN [s |-> s, w |-> w1, pos |-> 0, err |-> TRUE]
             ELSE [s   |-> [s EXCEPT !.cursors = Put(@, channelForKind(kind), pos),
                                     !.next = pos + 1],
                   w   |-> WalSync(w1),
                   pos |-> pos,
                   err |-> FALSE]

\* pendingCursors: the cursors with the record's channel moved to s.next
pendingCursors(s, kind) ==
    LET pos == IF s.next < 0 THEN 0 ELSE s.next
    IN  Put(s.cursors, channelForKind(kind), pos)

\* a collection that does not look at the approvals on record
gcLocked_IgnoresApprovals(s, w) ==
    IF DOMAIN s.checkpoints = {} THEN w
    ELSE LET earliest == MinOf({s.checkpoints[n].position : n \in DOMAIN s.checkpoints})
         IN  IF earliest > 0 THEN WalTruncate(w, earliest) ELSE w

\* gcLocked: with no approvals on record, cut the log at the earliest checkpoint
gcLocked(s, w) ==
    IF DOMAIN s.approvals # {} THEN w
    ELSE IF DOMAIN s.checkpoints = {} THEN w
    ELSE LET earliest == MinOf({s.checkpoints[n].position : n \in DOMAIN s.checkpoints})
         IN  IF earliest > 0 THEN WalTruncate(w, earliest) ELSE w

\* One step of the Replay callback in reload
reloadEntry(acc, e) ==
    LET a1 == [acc EXCEPT !.lastPos = IF e.position > @ THEN e.position ELSE @,
                          !.cursors = Put(@, channelForKind(e.type), e.position)]
    IN  CASE e.type = recordMessage ->
               LET m == UnmarshalMessage(e.data)
               IN  [a1 EXCEPT !.messages = Append(@, [m EXCEPT !.ts = UTC(m.ts)]),
                              !.seq = @ + 1]
          [] e.type = recordCheckpoint ->
               LET cpSnapshot == decodeCheckpointMessages(e.data.state)
               IN  [a1 EXCEPT !.messages = cpSnapshot,
                              !.seq = Len(cpSnapshot),
                              !.checkpoints =
                                  Put(@, e.data.name,
                                      [position |-> e.position,
                                       payload  |-> [e.data EXCEPT !.timestamp = MarshalTime(UTC(UnmarshalTime(@)))],
                                       snapshot |-> cpSnapshot])]
          [] e.type = recordResume ->
               IF TrimSpace(e.data) = "" \/ TrimSpace(e.data) \notin DOMAIN a1.checkpoints
               THEN [a1 EXCEPT !.ok = FALSE]
               ELSE LET snap == a1.checkpoints[TrimSpace(e.data)].snapshot
                    IN  [a1 EXCEPT !.messages = snap, !.seq = Len(snap)]
          [] e.type = recordApproval ->
               [a1 EXCEPT !.approvals = Put(@, e.data.id, e.data)]
          [] OTHER -> [a1 EXCEPT !.ok = FALSE]

RECURSIVE reloadFrom(_, _, _)
reloadFrom(entries, i, acc) ==
    IF i > Len(entries) \/ ~acc.ok THEN acc
    ELSE reloadFrom(entries, i + 1, reloadEntry(acc, entries[i]))

\* reload: replay the log into fresh state; ok = FALSE when Replay returns an error
reload(w) ==
    LET acc == reloadFrom(w.entries, 1,
                          [ok |-> TRUE, messages |-> <<>>, checkpoints |-> EmptyMap,
                           approvals |-> EmptyMap, cursors |-> EmptyMap, seq |-> 0,
                           lastPos |-> -1])
    IN  [ok |-> acc.ok,
         s  |-> [messages    |-> acc.messages,
                 checkpoints |-> acc.checkpoints,
                 approvals   |-> acc.approvals,
                 seq         |-> acc.seq,
                 cursors     |-> acc.cursors,
                 next        |-> IF acc.lastPos >= 0 THEN acc.lastPos + 1 ELSE 0,
                 closed      |-> FALSE]]

\* Append, after the record is durable: the message joins the transcript
appendMessage(s, clone) == [s EXCEPT !.messages = Append(@, clone)]

\* A faulty Resume that rewinds the counter and keeps the transcript
resumeApply_SeqOnly(s, restore) == [s EXCEPT !.seq = Len(restore)]

\* Resume, after the record is durable: the snapshot replaces the transcript
\* and the sequence counter is rewound to its length
resumeApply(s, restore) == [s EXCEPT !.messages = restore, !.seq = Len(restore)]

\* List: role and time filters, then offset and limit
RECURSIVE listFrom(_, _, _, _, _)
listFrom(msgs, i, f, skipped, result) ==
    IF i > Len(msgs) THEN result
    ELSE LET msg == msgs[i] IN
         IF TrimSpace(f.role) # "" /\ msg.role # TrimSpace(f.role)
         THEN listFrom(msgs, i + 1, f, skipped, result)
         ELSE IF f.hasStart /\ msg.ts.t < f.start
         THEN listFrom(msgs, i + 1, f, skipped, result)
         ELSE IF f.hasEnd /\ msg.ts.t > f.end
         THEN listFrom(msgs, i + 1, f, skipped, result)
         ELSE IF skipped < (IF f.offset < 0 THEN 0 ELSE f.offset)
         THEN listFrom(msgs, i + 1, f, skipped + 1, result)
         ELSE LET r1 == Append(result, msg)
                  limit == IF f.limit < 0 THEN 0 ELSE f.limit
              IN  IF limit > 0 /\ Len(r1) >= limit THEN r1
                  ELSE listFrom(msgs, i + 1, f, skipped, r1)

\* A faulty List that starts one message late
List_SkipFirst(s, f) == listFrom(s.messages, 2, f, 0, <<>>)

List(s, f) == listFrom(s.messages, 1, f, 0, <<>>)

EmptyFilter ==
    [role |-> "", offset |-> 0, limit |-> 0,
     hasStart |-> FALSE, start |-> 0, hasEnd |-> FALSE, end |-> 0]

----------------------------------------------------------------------------
(* Inputs of the session operations *)

MessageInputs ==
    { [id |-> "",   role |-> "user",      ts |-> ZeroTime,                  len |-> 60],
      [id |-> "c1", role |-> "assistant", ts |-> [t |-> 5, loc |-> "Local"], len |-> 70],
      [id |-> "",   role |-> " ",         ts |-> ZeroTime,                  len |-> 60] }

NameInputs == CheckpointNames \cup {""}

ApprovalInputs == { [id |-> "", decision |-> "approved"] }

\* what s.now() may return
NowTimes == { [t |-> 1, loc |-> "Local"] }

FaultChoices == IF io.budget > 0 THEN {"ok", "append", "sync"} ELSE {"ok"}

\* the budget left after a write that ended as `fault`
Spend(fault) == IF fault = "ok" THEN io ELSE [io EXCEPT !.budget = @ - 1]

Usable == handle = "live"

----------------------------------------------------------------------------
(* Operations of FileSession *)

Append_(msg, now, fault) ==
    /\ Usable
    /\ IF TrimSpace(msg.role) = ""
       THEN /\ lastOp' = [op |-> "Append", arg |-> msg.id, res |-> "invalid"]
            /\ UNCHANGED <<wlog, fs, appended>>
       ELSE IF fs.closed
       THEN /\ lastOp' = [op |-> "Append", arg |-> msg.id, res |-> "closed"]
            /\ UNCHANGED <<wlog, fs, appended>>
       ELSE /\ wlog.next < io.cap
            /\ LET s1    == [fs EXCEPT !.seq = @ + 1]
                   clone == [id   |-> IF msg.id = ""
                                      THEN SessionID \o "-" \o Sprintf06d(s1.seq)
                                      ELSE msg.id,
                             role |-> msg.role,
                             ts   |-> IF IsZero(msg.ts) THEN UTC(now) ELSE UTC(msg.ts),
                             len  |-> msg.len]
                   r     == appendRecord(s1, wlog, recordMessage, MarshalMessage(clone), fault)
               IN  /\ wlog' = r.w
                   /\ IF r.err
                      THEN /\ fs' = r.s
                           /\ lastOp' = [op |-> "Append", arg |-> msg.id, res |-> "walerr"]
                           /\ UNCHANGED appended
                      ELSE /\ fs' = appendMessage(r.s, clone)
                           /\ lastOp' = [op |-> "Append", arg |-> msg.id, res |-> "ok"]
                           /\ appended' = Append(appended, clone)
    /\ UNCHANGED <<handle, taken>>
    /\ io' = IF lastOp'.res \in {"ok", "walerr"} THEN Spend(fault) ELSE io
    /\ UNCHANGED nonSession

AppendApproval(rec, now, fault) ==
    /\ Usable
    /\ IF fs.closed
       THEN /\ lastOp' = [op |-> "AppendApproval", arg |-> rec.id, res |-> "closed"]
            /\ UNCHANGED <<wlog, fs>>
       ELSE /\ wlog.next < io.cap
            /\ LET clone == [rec EXCEPT
                                !.id = IF @ = ""
                                       THEN SessionID \o "-approval-"
                                            \o Sprintf06d(Cardinality(DOMAIN fs.approvals) + 1)
                                       ELSE @]
                   r == appendRecord(fs, wlog, recordApproval, clone, fault)
               IN  /\ wlog' = r.w
                   /\ IF r.err
                      THEN /\ fs' = r.s
                           /\ lastOp' = [op |-> "AppendApproval", arg |-> rec.id, res |-> "walerr"]
                      ELSE /\ fs' = [r.s EXCEPT !.approvals = Put(@, clone.id, clone)]
                           /\ lastOp' = [op |-> "AppendApproval", arg |-> rec.id, res |-> "ok"]
    /\ UNCHANGED <<handle, taken, appended>>
    /\ io' = IF lastOp'.res \in {"ok", "walerr"} THEN Spend(fault) ELSE io
    /\ UNCHANGED nonSession

Checkpoint(name, now, fault) ==
    /\ Usable
    /\ LET n == normalizeCheckpointName(name) IN
       IF ~n.ok
       THEN /\ lastOp' = [op |-> "Checkpoint", arg |-> name, res |-> "invalid"]
            /\ UNCHANGED <<wlog, fs, taken>>
       ELSE IF fs.closed
       THEN /\ lastOp' = [op |-> "Checkpoint", arg |-> name, res |-> "closed"]
            /\ UNCHANGED <<wlog, fs, taken>>
       ELSE IF checkpointTooLarge(PayloadLen(fs.messages))
       THEN /\ lastOp' = [op |-> "Checkpoint", arg |-> name, res |-> "toolarge"]
            /\ UNCHANGED <<wlog, fs, taken>>
       ELSE /\ wlog.next < io.cap
            /\ LET snapshot == fs.messages
                   cp == [name      |-> n.name,
                          timestamp |-> MarshalTime(UTC(now)),
                          state     |-> encodeCheckpointMessages(snapshot),
                          cursors   |-> pendingCursors(fs, recordCheckpoint)]
                   r  == appendRecord(fs, wlog, recordCheckpoint, cp, fault)
               IN  IF r.err
                   THEN /\ wlog' = r.w
                        /\ fs' = r.s
                        /\ lastOp' = [op |-> "Checkpoint", arg |-> name, res |-> "walerr"]
                        /\ UNCHANGED taken
                   ELSE LET s2 == [r.s EXCEPT !.checkpoints =
                                       Put(@, n.name, [position |-> r.pos,
                                                       payload  |-> cp,
                                                       snapshot |-> snapshot])]
                        IN  /\ fs' = s2
                            /\ wlog' = gcLocked(s2, r.w)
                            /\ lastOp' = [op |-> "Checkpoint", arg |-> name, res |-> "ok"]
                            /\ taken' = Put(taken, n.name, [msgs |-> snapshot, reopened |-> FALSE])
    /\ UNCHANGED <<handle, appended>>
    /\ io' = IF lastOp'.res \in {"ok", "walerr"} THEN Spend(fault) ELSE io
    /\ UNCHANGED nonSession

Resume(name, fault) ==
    /\ Usable
    /\ LET n == normalizeCheckpointName(name) IN
       IF ~n.ok
       THEN /\ lastOp' = [op |-> "Resume", arg |-> name, res |-> "invalid"]
            /\ UNCHANGED <<wlog, fs, appended>>
       ELSE IF fs.closed
       THEN /\ lastOp' = [op |-> "Resume", arg |-> name, res |-> "closed"]
            /\ UNCHANGED <<wlog, fs, appended>>
       ELSE IF n.name \notin DOMAIN fs.checkpoints
       THEN /\ lastOp' = [op |-> "Resume", arg |-> name, res |-> "notfound"]
            /\ UNCHANGED <<wlog, fs, appended>>
       ELSE /\ wlog.next < io.cap
            /\ LET restore == fs.checkpoints[n.name].snapshot
                   r == appendRecord(fs, wlog, recordResume, n.name, fault)
               IN  IF r.err
                   THEN /\ wlog' = r.w
                        /\ fs' = r.s
                        /\ lastOp' = [op |-> "Resume", arg |-> name, res |-> "walerr"]
                        /\ UNCHANGED appended
                   ELSE LET s2 == resumeApply(r.s, restore)
                        IN  /\ fs' = s2
                            /\ wlog' = gcLocked(s2, r.w)
                            /\ lastOp' = [op |-> "Resume", arg |-> name, res |-> "ok"]
                            /\ appended' = restore
    /\ UNCHANGED <<handle, taken>>
    /\ io' = IF lastOp'.res \in {"ok", "walerr"} THEN Spend(fault) ELSE io
    /\ UNCHANGED nonSession

Close ==
    /\ Usable
    /\ ~fs.closed
    /\ fs' = [fs EXCEPT !.closed = TRUE]
    /\ lastOp' = [op |-> "Close", arg |-> "", res |-> "ok"]
    /\ UNCHANGED <<wlog, handle, taken, appended, io>>
    /\ UNCHANGED nonSession

\* The process dies: the object is gone, the log directory stays.
Crash ==
    /\ Usable
    /\ ~fs.closed
    /\ handle' = "none"
    /\ lastOp' = [op |-> "Crash", arg |-> "", res |-> "ok"]
    /\ UNCHANGED <<wlog, fs, taken, appended, io>>
    /\ UNCHANGED nonSession

\* NewFileSession on the existing directory: wal.Open, then reload.
\* Until it succeeds, fs keeps the fields the previous object last held.
NewFileSession(keep) ==
    /\ handle = "none" \/ fs.closed
    /\ LET w1 == WalOpen(wlog, keep)
           r  == reload(w1)
       IN  /\ wlog' = w1
           /\ IF r.ok
              THEN /\ fs' = r.s
                   /\ handle' = "live"
                   /\ lastOp' = [op |-> "Open", arg |-> "", res |-> "ok"]
                   /\ taken' = [c \in DOMAIN taken |-> [taken[c] EXCEPT !.reopened = TRUE]]
              ELSE /\ handle' = "none"
                   /\ lastOp' = [op |-> "Open", arg |-> "", res |-> "error"]
                   /\ UNCHANGED <<fs, taken>>
    /\ UNCHANGED <<appended, io>>
    /\ UNCHANGED nonSession

----------------------------------------------------------------------------
(* Part II: pkg/approval *)

Sessions == {"s1"}

Tools == {"echo"}

DecisionPending == "pending"
DecisionApproved == "approved"
DecisionRejected == "rejected"
DecisionTimeout == "timeout"

\* header + crc + len("approval"): 4 + 1 + 2 + 4 + 4 + 8
walEntryOverhead == 23

\* A params value: a Go value with its dynamic type
IntVal(n) == [type |-> "int", v |-> n]

\* fmt's %v: an int prints its decimal digits; a float64 prints as %g with the
\* shortest digits, which turns to exponent form from 1e+06 on (the model
\* draws whole multiples of a million below ten million there).
fmtV(val) ==
    CASE val.type = "int" -> ToString(val.v)
      [] val.type = "float64" ->
             IF val.v < 1000000 THEN ToString(val.v)
             ELSE ToString(val.v \div 1000000) \o "e+06"
      [] OTHER -> val.v

\* every key a params map of the model may hold, as sort.Strings orders them
SortedKeys == <<"n">>

RECURSIVE encodeKeys(_, _)
encodeKeys(val, i) ==
    IF i > Len(SortedKeys) THEN ""
    ELSE (IF SortedKeys[i] \in DOMAIN val
          THEN SortedKeys[i] \o ":" \o fmtV(val[SortedKeys[i]]) \o ";"
          ELSE "")
         \o encodeKeys(val, i + 1)

\* encodeValue on a params map: "{" k ":" value ";" ... "}" over the sorted keys
encodeValue(val) == "{" \o encodeKeys(val, 1) \o "}"

\* hashParams: "empty" for no params, else the SHA-256 of the encoding
\* (kept as the encoding itself: distinct encodings hash apart)
hashParams(params) == IF DOMAIN params = {} THEN "empty" ELSE encodeValue(params)

\* Whitelist.key
key(sessionID, tool, params) == sessionID \o "|" \o tool \o "|" \o hashParams(params)

\* Whitelist.Allowed, on the set of keys the whitelist holds
Allowed(wl, sessionID, tool, params) == key(sessionID, tool, params) \in wl

\* Whitelist.Add (idempotent)
WhitelistAdd(wl, sessionID, tool, params) == wl \cup {key(sessionID, tool, params)}

\* encoding/json on params: Go numbers are written as JSON numbers and
\* every JSON number is read back as a float64
MarshalValue(val) ==
    IF val.type \in {"int", "float64"}
    THEN [json |-> "number", v |-> val.v]
    ELSE [json |-> "string", v |-> val.v]

UnmarshalValue(j) ==
    IF j.json = "number"
    THEN [type |-> "float64", v |-> j.v]
    ELSE [type |-> "string", v |-> j.v]

MarshalRecord(rec) ==
    [rec EXCEPT !.params = [k \in DOMAIN rec.params |-> MarshalValue(rec.params[k])]]

UnmarshalRecord(data) ==
    [data EXCEPT !.params = [k \in DOMAIN data.params |-> UnmarshalValue(data.params[k])]]

\* len(data) of a marshalled record: optional fields lengthen the object
DataLen(data) ==
    90 + (IF DOMAIN data.params # {} THEN 20 ELSE 0)
       + (IF data.decided # 0 THEN 40 ELSE 0)
       + (IF data.comment # "" THEN 20 ELSE 0)
       + (IF data.auto THEN 12 ELSE 0)

\* NewRecordLog before reload
EmptyRecordLog ==
    [records |-> EmptyMap, positions |-> EmptyMap, entrySize |-> EmptyMap, nextPosition |-> 0]

\* what RecordLog.Append and reload note about the entry at pos
rlIndex(l, rec, pos, size) ==
    [records      |-> Put(l.records, rec.id, rec),
     positions    |-> Put(l.positions, rec.id, pos),
     entrySize    |-> Put(l.entrySize, rec.id, size),
     nextPosition |-> IF pos >= l.nextPosition THEN pos + 1 ELSE l.nextPosition]

\* RecordLog.Append: marshal, wal.Append, wal.Sync, then index the record
rlAppend(l, w, rec, fault) ==
    IF fault = "append"
    THEN [l |-> l, w |-> w, err |-> TRUE]
    ELSE LET data == MarshalRecord(rec)
             pos  == w.next
             w1   == WalAppend(w, recordApproval, data)
         IN  IF fault = "sync"
             THEN [l |-> l, w |-> w1, err |-> TRUE]
             ELSE [l   |-> rlIndex(l, rec, pos, walEntryOverhead + DataLen(data)),
                   w   |-> WalSync(w1),
                   err |-> FALSE]

RECURSIVE rlReloadFrom(_, _, _)
rlReloadFrom(entries, i, l) ==
    IF i > Len(entries) THEN l
    ELSE LET e == entries[i] IN
         rlReloadFrom(entries, i + 1,
             IF e.type # recordApproval THEN l
             ELSE rlIndex(l, UnmarshalRecord(e.data), e.position,
                          walEntryOverhead + DataLen(e.data)))

\* RecordLog.reload: replay the WAL, the last entry of an id wins
rlReload(w) == rlReloadFrom(w.entries, 1, EmptyRecordLog)

Remove(f, k) == [x \in (DOMAIN f) \ {k} |-> f[x]]

\* A faulty NewQueue that restores the index and the whitelist and forgets the
\* pending map
NewQueue_NoPending(l) ==
    [index     |-> l.records,
     pending   |-> EmptyMap,
     whitelist |-> {key(l.records[id].session, l.records[id].tool, l.records[id].params) :
                       id \in {i \in DOMAIN l.records : l.records[i].decision = DecisionApproved}}]

\* NewQueue: index every stored record, seed the whitelist from the approved
\* ones and the pending map from the pending ones
NewQueue(l) ==
    [index     |-> l.records,
     pending   |-> [id \in {i \in DOMAIN l.records : l.records[i].decision = DecisionPending}
                       |-> l.records[id]],
     whitelist |-> {key(l.records[id].session, l.records[id].tool, l.records[id].params) :
                       id \in {i \in DOMAIN l.records : l.records[i].decision = DecisionApproved}}]

\* newID: a fresh identifier at every call
newID(n) == "r" \o ToString(n)

\* Approve in memory: index, pending map and whitelist
approveApply(qq, rec) ==
    [index     |-> Put(qq.index, rec.id, rec),
     pending   |-> Remove(qq.pending, rec.id),
     whitelist |-> WhitelistAdd(qq.whitelist, rec.session, rec.tool, rec.params)]

\* A faulty Reject/Timeout that leaves the record in the pending map
denyApply_KeepPending(qq, rec) == [qq EXCEPT !.index = Put(@, rec.id, rec)]

\* A faulty Reject/Timeout that whitelists the call as Approve does
denyApply_Whitelisting(qq, rec) ==
    [index     |-> Put(qq.index, rec.id, rec),
     pending   |-> Remove(qq.pending, rec.id),
     whitelist |-> WhitelistAdd(qq.whitelist, rec.session, rec.tool, rec.params)]

\* Reject and Timeout in memory: index and pending map
denyApply(qq, rec) ==
    [qq EXCEPT !.index = Put(@, rec.id, rec), !.pending = Remove(@, rec.id)]

\* Request in memory, on a whitelist hit and otherwise
requestAutoApply(qq, rec) == [qq EXCEPT !.index = Put(@, rec.id, rec)]

requestPendingApply(qq, rec) ==
    [qq EXCEPT !.index = Put(@, rec.id, rec), !.pending = Put(@, rec.id, rec)]

----------------------------------------------------------------------------
(* Inputs of the queue operations *)

ParamInputs ==
    { EmptyMap, [k \in {"n"} |-> IntVal(1)], [k \in {"n"} |-> IntVal(1000000)] }

\* (session, tool, params) of a Request: the valid ones, a blank session id
\* and an empty tool name
RequestInputs ==
    { <<s, t, p>> : s \in Sessions, t \in Tools, p \in ParamInputs }
        \cup { <<" ", "echo", EmptyMap>>, <<"s1", "", EmptyMap>> }

IDInputs == {newID(n) : n \in 1..MaxRecords} \cup {"missing"}

ApproveComments == {"ok"}

RejectComments == {""}

\* a call that was refused before it touched the queue (a validation error,
\* or an id that is not pending)
RefusedCall == [op |-> "call", id |-> "", res |-> "refused", auto |-> FALSE]

QFaultChoices == IF qio.budget > 0 THEN {"ok", "append", "sync"} ELSE {"ok"}

QSpend(fault) == IF fault = "ok" THEN qio ELSE [qio EXCEPT !.budget = @ - 1]

\* q.now(): the clock ticks with every record issued
qNow == issued + 1

\* what a request asks for: session, tool and the params as a JSON value (the
\* same call may hold a number as an int in one process and as a float64 in
\* the next)
Triple(rec) ==
    [session |-> rec.session, tool |-> rec.tool,
     params  |-> [k \in DOMAIN rec.params |-> MarshalValue(rec.params[k])]]

----------------------------------------------------------------------------
(* Operations of Queue *)

Request(sessionID, tool, params, fault) ==
    /\ LET sid == TrimSpace(sessionID)
           tl  == TrimSpace(tool)
       IN  IF sid = "" \/ tl = ""
           THEN /\ qLast' = RefusedCall
                /\ UNCHANGED <<qwal, rl, q, issued, qio>>
           ELSE /\ issued < qio.cap
                /\ issued' = issued + 1
                /\ IF Allowed(q.whitelist, sid, tl, params)
                   THEN LET rec == [id |-> newID(issued + 1), session |-> sid, tool |-> tl,
                                    params |-> params, decision |-> DecisionApproved,
                                    requested |-> qNow, decided |-> qNow,
                                    comment |-> "whitelisted", auto |-> TRUE]
                            r   == rlAppend(rl, qwal, rec, fault)
                        IN  /\ q' = requestAutoApply(q, rec)
                            /\ rl' = r.l
                            /\ qwal' = r.w
                            /\ qLast' = [op |-> "Request", id |-> rec.id, res |-> "ok",
                                         auto |-> TRUE]
                   ELSE LET rec == [id |-> newID(issued + 1), session |-> sid, tool |-> tl,
                                    params |-> params, decision |-> DecisionPending,
                                    requested |-> qNow, decided |-> 0,
                                    comment |-> "", auto |-> FALSE]
                            r   == rlAppend(rl, qwal, rec, fault)
                        IN  /\ q' = requestPendingApply(q, rec)
                            /\ rl' = r.l
                            /\ qwal' = r.w
                            /\ qLast' = [op |-> "Request", id |-> rec.id,
                                         res |-> IF r.err THEN "error" ELSE "ok",
                                         auto |-> FALSE]
                /\ qio' = QSpend(fault)
    /\ UNCHANGED <<hist, nonQueue>>

Approve(id, comment, fault) ==
    /\ IF id \notin DOMAIN q.pending
       THEN /\ qLast' = RefusedCall
            /\ UNCHANGED <<qwal, rl, q, qio, hist>>
       ELSE LET rec == [q.pending[id] EXCEPT
                           !.decision = DecisionApproved,
                           !.decided = qNow,
                           !.comment = IF TrimSpace(comment) # "" THEN comment ELSE "approved"]
                r   == rlAppend(rl, qwal, rec, fault)
            IN  /\ q' = approveApply(q, rec)
                /\ rl' = r.l
                /\ qwal' = r.w
                /\ qio' = QSpend(fault)
                /\ qLast' = [op |-> "Approve", id |-> id,
                             res |-> IF r.err THEN "error" ELSE "ok", auto |-> FALSE]
                /\ hist' = IF r.err THEN hist
                           ELSE [hist EXCEPT !.approved = @ \cup {Triple(rec)}]
    /\ UNCHANGED <<issued, nonQueue>>

Reject(id, comment, fault) ==
    /\ IF id \notin DOMAIN q.pending
       THEN /\ qLast' = RefusedCall
            /\ UNCHANGED <<qwal, rl, q, qio, hist>>
       ELSE LET rec == [q.pending[id] EXCEPT
                           !.decision = DecisionRejected,
                           !.decided = qNow,
                           !.comment = IF TrimSpace(comment) # "" THEN comment ELSE "rejected"]
                r   == rlAppend(rl, qwal, rec, fault)
            IN  /\ q' = denyApply(q, rec)
                /\ rl' = r.l
                /\ qwal' = r.w
                /\ qio' = QSpend(fault)
                /\ qLast' = [op |-> "Reject", id |-> id,
                             res |-> IF r.err THEN "error" ELSE "ok", auto |-> FALSE]
                /\ hist' = IF r.err THEN hist
                           ELSE [hist EXCEPT !.denied = @ \cup {Triple(rec)}]
    /\ UNCHANGED <<issued, nonQueue>>

Timeout(id, fault) ==
    /\ IF id \notin DOMAIN q.pending
       THEN /\ qLast' = RefusedCall
            /\ UNCHANGED <<qwal, rl, q, qio, hist>>
       ELSE LET rec == [q.pending[id] EXCEPT
                           !.decision = DecisionTimeout,
                           !.decided = qNow,
                           !.comment = "timeout"]
                r   == rlAppend(rl, qwal, rec, fault)
            IN  /\ q' = denyApply(q, rec)
                /\ rl' = r.l
                /\ qwal' = r.w
                /\ qio' = QSpend(fault)
                /\ qLast' = [op |-> "Timeout", id |-> id,
                             res |-> IF r.err THEN "error" ELSE "ok", auto |-> FALSE]
                /\ hist' = IF r.err THEN hist
                           ELSE [hist EXCEPT !.denied = @ \cup {Triple(rec)}]
    /\ UNCHANGED <<issued, nonQueue>>

\* The queue is closed (or the process dies) and NewRecordLog and NewQueue
\* run on the same directory with a new whitelist.
Reopen(keep) ==
    /\ qLast.op # "Reopen"
    /\ LET w1 == WalOpen(qwal, keep)
           l1 == rlReload(w1)
       IN  /\ qwal' = w1
           /\ rl' = l1
           /\ q' = NewQueue(l1)
    /\ qLast' = [op |-> "Reopen", id |-> "", res |-> "ok", auto |-> FALSE]
    /\ UNCHANGED <<issued, qio, hist, nonQueue>>

----------------------------------------------------------------------------
(* Retention of the record log (GC).  The clock of the model counts days. *)

defaultRetentionDays == 7

defaultRetentionCount == 1000

defaultGCConfig ==
    [retentionDays |-> defaultRetentionDays, retentionCount |-> defaultRetentionCount,
     retentionBytes |-> 0]

\* WithRetentionDays, WithRetentionCount, WithRetentionBytes: a non-positive
\* argument disables the threshold
WithRetentionDays(cfg, days) == [cfg EXCEPT !.retentionDays = IF days <= 0 THEN 0 ELSE days]

WithRetentionCount(cfg, count) == [cfg EXCEPT !.retentionCount = IF count <= 0 THEN 0 ELSE count]

WithRetentionBytes(cfg, bytes) == [cfg EXCEPT !.retentionBytes = IF bytes <= 0 THEN 0 ELSE bytes]

\* the order of the record ids as strings ("r1" < "r2" < ...)
idRank(id) == CHOOSE n \in 1..(MaxRecords + 2) : newID(n) = id

\* the less function of snapshotRecordsLocked: request time, then id
metaLess(a, b) ==
    IF a.requested = b.requested THEN idRank(a.id) < idRank(b.id)
    ELSE a.requested < b.requested

RECURSIVE sortMeta(_)
sortMeta(S) ==
    IF S = {} THEN <<>>
    ELSE LET m == CHOOSE x \in S : \A y \in S \ {x} : metaLess(x, y)
         IN  <<m>> \o sortMeta(S \ {m})

\* snapshotRecordsLocked: every indexed record with its position and size,
\* sorted by request time
snapshotRecordsLocked(l) ==
    sortMeta({ [id |-> id, requested |-> l.records[id].requested,
                position |-> l.positions[id], size |-> l.entrySize[id]] :
               id \in DOMAIN l.records })

\* sort.Search(n, f): binary search for the first index in 0..n-1 where the
\* entry is not before the cutoff (n when there is none)
RECURSIVE searchFrom(_, _, _, _)
searchFrom(entries, cutoff, lo, hi) ==
    IF lo >= hi THEN lo
    ELSE LET h == (lo + hi) \div 2
         IN  IF entries[h + 1].requested < cutoff
             THEN searchFrom(entries, cutoff, h + 1, hi)
             ELSE searchFrom(entries, cutoff, lo, h)

RECURSIVE sizeFrom(_, _)
sizeFrom(entries, i) ==
    IF i > Len(entries) THEN 0 ELSE entries[i].size + sizeFrom(entries, i + 1)

\* the retention_bytes loop of computeKeepStart, i counting from 0
RECURSIVE bytesLoop(_, _, _, _, _, _)
bytesLoop(entries, limit, total, prefix, i, keep) ==
    IF i < Len(entries) /\ total - prefix > limit
    THEN bytesLoop(entries, limit, total, prefix + entries[i + 1].size, i + 1,
                   IF i + 1 > keep THEN i + 1 ELSE keep)
    ELSE keep

\* A faulty computeKeepStart that leaves out the byte limit
computeKeepStart_NoBytes(entries, cfg, now) ==
    LET n  == Len(entries)
        k1 == IF cfg.retentionDays > 0
              THEN searchFrom(entries, now - cfg.retentionDays, 0, n)
              ELSE 0
    IN  IF cfg.retentionCount > 0 /\ n > cfg.retentionCount /\ n - cfg.retentionCount > k1
        THEN n - cfg.retentionCount
        ELSE k1

\* computeKeepStart: the index (from 0) of the oldest entry to keep
computeKeepStart(entries, cfg, now) ==
    LET n  == Len(entries)
        k1 == IF cfg.retentionDays > 0
              THEN LET idx == searchFrom(entries, now - cfg.retentionDays, 0, n)
                   IN  IF idx > 0 THEN idx ELSE 0
              ELSE 0
        k2 == IF cfg.retentionCount > 0 /\ n > cfg.retentionCount
              THEN (IF n - cfg.retentionCount > k1 THEN n - cfg.retentionCount ELSE k1)
              ELSE k1
        k3 == IF cfg.retentionBytes > 0 /\ sizeFrom(entries, 1) > cfg.retentionBytes
              THEN bytesLoop(entries, cfg.retentionBytes, sizeFrom(entries, 1), 0, 0, k2)
              ELSE k2
    IN  IF k3 > n THEN n ELSE k3

\* where runGCWithConfig cuts the WAL: at the position of the oldest kept
\* entry, or at nextPosition when nothing is kept
truncatePosition(l, entries, keepStart) ==
    IF keepStart < Len(entries) THEN entries[keepStart + 1].position ELSE l.nextPosition

\* runGCWithConfig under l.mu: choose keepStart, truncate the WAL, then delete
\* the dropped ids from records, positions and entrySize
runGCWithConfig(l, w, cfg, now) ==
    LET entries   == snapshotRecordsLocked(l)
        keepStart == IF Len(entries) = 0 THEN 0 ELSE computeKeepStart(entries, cfg, now)
    IN  IF keepStart = 0
        THEN [l |-> l, w |-> w, dropped |-> {}, kept |-> <<>>, cut |-> 0]
        ELSE LET dropIDs == {entries[i].id : i \in 1..keepStart}
                 pos     == truncatePosition(l, entries, keepStart)
             IN  [l |-> [l EXCEPT !.records   = [id \in (DOMAIN @) \ dropIDs |-> @[id]],
                                  !.positions = [id \in (DOMAIN @) \ dropIDs |-> @[id]],
                                  !.entrySize = [id \in (DOMAIN @) \ dropIDs |-> @[id]]],
                  w |-> WalTruncate(w, pos),
                  dropped |-> dropIDs,
                  kept |-> SubSeq(entries, keepStart + 1, Len(entries)),
                  cut |-> pos]

\* the retention policies a GC call is given, as options over the defaults
GCConfigs ==
    { WithRetentionCount(defaultGCConfig, 1),
      WithRetentionCount(defaultGCConfig, 2),
      WithRetentionDays(defaultGCConfig, 1),
      WithRetentionBytes(defaultGCConfig, 300) }

\* RecordLog.GC.  It holds l.mu from the snapshot to the deletes, as
\* RecordLog.Append does from the marshal to the index update: the two never
\* interleave, and every behaviour is a sequence of whole Appends and GCs.
GC(cfg) ==
    /\ LET r == runGCWithConfig(rl, qwal, cfg, qNow)
       IN  /\ rl' = r.l
           /\ qwal' = r.w
           /\ qLast' = [op |-> "GC", id |-> "", res |-> IF r.dropped = {} THEN "kept" ELSE "ok",
                        auto |-> FALSE]
    /\ UNCHANGED <<q, issued, hist, qio, nonQueue>>

----------------------------------------------------------------------------
(* The channel WAL of pkg/session: one wal.WAL per channel under a root *)

channelOrder == <<"progress", "control", "monitor">>

Channels == {channelOrder[i] : i \in 1..Len(channelOrder)}

Threads == {"t1", "t2"}

MaxOf(S) == CHOOSE m \in S : \A x \in S : m >= x

\* wal.ReadSince(start, cb): the entries from the cursor on, in log order.
\* TestChannelWALIsolation reads from the position p1 of its first Append and
\* is handed that entry.
WalReadSince(w, start) == SelectSeq(w.entries, LAMBDA e : e.position >= start)

\* wal.Replay(cb): every entry
WalReplay(w) == w.entries

\* NewWAL: open the log of every channel and replay it for its last position
NewWAL(dirs) ==
    [logs   |-> dirs,
     latest |-> [ch \in {c \in Channels : Len(WalReplay(dirs[c])) > 0} |->
                    MaxOf({WalReplay(dirs[ch])[i].position : i \in 1..Len(WalReplay(dirs[ch]))})]]

\* WAL.Append up to the return of log.Append: the entry is in the channel's log
cwLogAppend(w, ch, type, data) == [w EXCEPT !.logs[ch] = WalAppend(@, type, data)]

\* WAL.Append from w.mu.Lock on: the cursor of the channel is set to pos
cwSetLatest(w, ch, pos) == [w EXCEPT !.latest = Put(@, ch, pos)]

\* WAL.ReadSince
cwReadSince(w, ch, start) == WalReadSince(w.logs[ch], start)

\* WAL.Truncate
cwTruncate(w, ch, upto) == [w EXCEPT !.logs[ch] = WalTruncate(@, upto)]

\* WAL.Sync
cwSync(w, ch) == [w EXCEPT !.logs[ch] = WalSync(@)]

\* WAL.Snapshot: a copy of the latest cursors
cwSnapshot(w) == w.latest

\* the channels the calls of the model address, and the payloads they write
CwChannelInputs == {"progress", "control"}

\* the channel the Truncate and ReadSince calls of the model address
CwReadInputs == {"progress"}

CwAppendInputs == {<<"progress", "x">>, <<"progress", "y">>, <<"control", "x">>}

CwCap(ch) == IF ch = "progress" THEN MaxCwPos ELSE MaxCwPosControl

InitChannelState ==
    /\ cw = NewWAL([ch \in Channels |-> EmptyWAL])
    /\ thr = [t \in Threads |-> [pc |-> "idle", ch |-> "", pos |-> 0]]
    /\ cwLast = [op |-> "NewWAL", ch |-> "", arg |-> 0, out |-> <<>>]
    /\ cwHist = [acked |-> {}, done |-> EmptyMap,
                 cut |-> [ch \in Channels |-> 0],
                 written |-> [ch \in Channels |-> EmptyMap]]

\* goroutine t calls WAL.Append(ch, entry); log.Append has returned pos
CwAppendCall(t, ch, data) ==
    /\ thr[t].pc = "idle"
    /\ cw.logs[ch].next < CwCap(ch)
    /\ LET pos == cw.logs[ch].next
       IN  /\ cw' = cwLogAppend(cw, ch, ch, data)
           /\ thr' = [thr EXCEPT ![t] = [pc |-> "appended", ch |-> ch, pos |-> pos]]
           /\ cwHist' = [cwHist EXCEPT !.written[ch] = Put(@, pos, data)]
    /\ cwLast' = [op |-> "log.Append", ch |-> "", arg |-> 0, out |-> <<>>]
    /\ UNCHANGED nonChannel

\* goroutine t takes w.mu, stores its position as the channel's cursor and
\* returns from WAL.Append
CwAppendReturn(t) ==
    /\ thr[t].pc = "appended"
    /\ cw' = cwSetLatest(cw, thr[t].ch, thr[t].pos)
    /\ thr' = [thr EXCEPT ![t] = [pc |-> "idle", ch |-> "", pos |-> 0]]
    /\ cwLast' = [op |-> "Append", ch |-> "", arg |-> 0, out |-> <<>>]
    /\ cwHist' = [cwHist EXCEPT !.done =
                      IF thr[t].ch \in DOMAIN @ /\ @[thr[t].ch] > thr[t].pos THEN @
                      ELSE Put(@, thr[t].ch, thr[t].pos)]
    /\ UNCHANGED nonChannel

\* WAL.Sync(ch) returns without error: what the channel's log holds is durable
CwSync(ch) ==
    /\ cw.logs[ch].synced < cw.logs[ch].next
    /\ cw' = cwSync(cw, ch)
    /\ cwLast' = [op |-> "Sync", ch |-> "", arg |-> 0, out |-> <<>>]
    /\ cwHist' = [cwHist EXCEPT !.acked = @ \cup
                      { [ch |-> ch, entry |-> cw'.logs[ch].entries[i]] :
                          i \in { j \in 1..Len(cw'.logs[ch].entries) :
                                     cw'.logs[ch].entries[j].position < cw'.logs[ch].synced } }]
    /\ UNCHANGED <<thr, nonChannel>>

\* WAL.Truncate(ch, upto), on a durable prefix of the log
CwTruncate(ch, upto) ==
    /\ upto <= cw.logs[ch].synced
    /\ upto > cwHist.cut[ch]
    /\ cw' = cwTruncate(cw, ch, upto)
    /\ cwLast' = [op |-> "Truncate", ch |-> "", arg |-> 0, out |-> <<>>]
    /\ cwHist' = [cwHist EXCEPT !.cut[ch] = upto]
    /\ UNCHANGED <<thr, nonChannel>>

\* WAL.ReadSince(ch, start, cb): out is what cb was called with, in order
CwReadSince(ch, start) ==
    /\ cwLast' = [op |-> "ReadSince", ch |-> ch, arg |-> start,
                  out |-> cwReadSince(cw, ch, start)]
    /\ UNCHANGED <<cw, thr, cwHist, nonChannel>>

\* The WAL is closed, or the process dies, and NewWAL runs on the same root.
\* keep[ch] says how much of the channel's log is found.  The goroutines are
\* gone.  Unless the close was orderly (no Append under way, nothing lost),
\* the positions of completed Appends are counted anew from what is found.
CwReopen(keep) ==
    /\ cwLast.op # "NewWAL"
    /\ \A ch \in Channels : keep[ch] \in WalKeepChoices(cw.logs[ch])
    /\ LET orderly == /\ \A t \in Threads : thr[t].pc = "idle"
                      /\ \A ch \in Channels : keep[ch] = cw.logs[ch].next
           w1 == NewWAL([ch \in Channels |-> WalOpen(cw.logs[ch], keep[ch])])
       IN  /\ cw' = w1
           /\ cwHist' = [cwHist EXCEPT !.done = IF orderly THEN @ ELSE w1.latest]
    /\ thr' = [t \in Threads |-> [pc |-> "idle", ch |-> "", pos |-> 0]]
    /\ cwLast' = [op |-> "NewWAL", ch |-> "", arg |-> 0, out |-> <<>>]
    /\ UNCHANGED nonChannel

ChannelNext ==
    \/ \E t \in Threads, in \in CwAppendInputs : CwAppendCall(t, in[1], in[2])
    \/ \E t \in Threads : CwAppendReturn(t)
    \/ \E ch \in CwChannelInputs : CwSync(ch)
    \/ \E ch \in CwReadInputs, upto \in 1..MaxCwPos : CwTruncate(ch, upto)
    \/ \E ch \in CwReadInputs, start \in 0..(MaxCwPos - 1) : CwReadSince(ch, start)
    \/ \E keep \in [Channels -> 0..MaxCwPos] : CwReopen(keep)

----------------------------------------------------------------------------
(* The middleware Stack of pkg/middleware *)

\* the middlewares the calls of the model register
MiddlewareNames == {"m1", "m2", "m3"}

Priorities == {10, 50, 90}

MiddlewareInputs == [name : MiddlewareNames, priority : Priorities]

\* the final handler, as an element of a call order
FinalHandler == [name |-> "final", priority |-> 0]

\* a registration that leaves the slice in the order of the Use calls
sortLocked_Unsorted(ms) == ms

insertStable(sorted, mw) ==
    LET before == SelectSeq(sorted, LAMBDA x : x.priority <= mw.priority)
        after  == SelectSeq(sorted, LAMBDA x : x.priority > mw.priority)
    IN  before \o <<mw>> \o after

RECURSIVE sortFrom(_, _, _)
sortFrom(ms, i, sorted) ==
    IF i > Len(ms) THEN sorted
    ELSE sortFrom(ms, i + 1, insertStable(sorted, ms[i]))

\* Stack.sortLocked: sort.SliceStable, ascending by Priority()
sortLocked(ms) == sortFrom(ms, 1, <<>>)

\* the slice without its first element named name
removeNamed(ms, name) ==
    IF \E i \in 1..Len(ms) : ms[i].name = name
    THEN LET i == MinOf({j \in 1..Len(ms) : ms[j].name = name})
         IN  SubSeq(ms, 1, i - 1) \o SubSeq(ms, i + 1, Len(ms))
    ELSE ms

\* A handler is written as the order of the calls it makes.  A middleware
\* passes the call on to next, as BaseMiddleware does.
RECURSIVE modelChain(_, _, _)
modelChain(ms, i, handler) ==
    IF i > Len(ms) THEN handler
    ELSE modelChain(ms, i + 1, <<ms[i]>> \o handler)

\* Stack.ExecuteModelCall: wrap the final handler in ms[1], the result in
\* ms[2], and so on, and call the outermost handler
stackExecuteModelCall(ms) == modelChain(ms, 1, <<FinalHandler>>)

RECURSIVE toolChain(_, _, _)
toolChain(ms, i, handler) ==
    IF i > Len(ms) THEN handler
    ELSE toolChain(ms, i + 1, <<ms[i]>> \o handler)

\* Stack.ExecuteToolCall
stackExecuteToolCall(ms) == toolChain(ms, 1, <<FinalHandler>>)

\* Stack.Start: OnStart of every middleware, in slice order
stackStart(ms) == ms

\* Stack.Stop: OnStop of every middleware, from the end of the slice
stackStop(ms) == [i \in 1..Len(ms) |-> ms[Len(ms) + 1 - i]]

InitStackState ==
    /\ middlewares = <<>>
    /\ registered = <<>>
    /\ mwLast = [op |-> "NewStack", order |-> <<>>]

Use(mw) ==
    /\ Len(middlewares) < MaxMiddlewares
    /\ \A i \in 1..Len(middlewares) : middlewares[i].name # mw.name
    /\ middlewares' = sortLocked(Append(middlewares, mw))
    /\ registered' = Append(registered, mw)
    /\ mwLast' = [op |-> "Use", order |-> <<>>]
    /\ UNCHANGED nonStack

\* Stack.Remove
StackRemove(name) ==
    /\ middlewares' = removeNamed(middlewares, name)
    /\ registered' = removeNamed(registered, name)
    /\ mwLast' = [op |-> "Remove", order |-> <<>>]
    /\ UNCHANGED nonStack

ExecuteModelCall ==
    /\ mwLast' = [op |-> "ExecuteModelCall", order |-> stackExecuteModelCall(middlewares)]
    /\ UNCHANGED <<middlewares, registered, nonStack>>

ExecuteToolCall ==
    /\ mwLast' = [op |-> "ExecuteToolCall", order |-> stackExecuteToolCall(middlewares)]
    /\ UNCHANGED <<middlewares, registered, nonStack>>

Start ==
    /\ mwLast' = [op |-> "Start", order |-> stackStart(middlewares)]
    /\ UNCHANGED <<middlewares, registered, nonStack>>

Stop ==
    /\ mwLast' = [op |-> "Stop", order |-> stackStop(middlewares)]
    /\ UNCHANGED <<middlewares, registered, nonStack>>

StackNext ==
    \/ \E mw \in MiddlewareInputs : Use(mw)
    \/ \E name \in MiddlewareNames : StackRemove(name)
    \/ ExecuteModelCall
    \/ ExecuteToolCall
    \/ Start
    \/ Stop

----------------------------------------------------------------------------
(* Specifications *)

InitSessionState ==
    /\ wlog = EmptyWAL
    /\ fs = NewSession
    /\ handle = "live"
    /\ lastOp = [op |-> "Open", arg |-> "", res |-> "ok"]
    /\ taken = EmptyMap
    /\ appended = <<>>

InitQueueState ==
    /\ qwal = EmptyWAL
    /\ rl = EmptyRecordLog
    /\ q = NewQueue(EmptyRecordLog)
    /\ issued = 0
    /\ qLast = [op |-> "NewQueue", id |-> "", res |-> "ok", auto |-> FALSE]
    /\ hist = [approved |-> {}, denied |-> {}]

\* no function call is being observed
NoCall == [name |-> "none", done |-> FALSE]

Init ==
    /\ InitSessionState
    /\ InitQueueState
    /\ io = [budget |-> 0, cap |-> MaxWalPos]
    /\ qio = [budget |-> 0, cap |-> MaxRecords]
    /\ fn = NoCall
    /\ InitChannelState
    /\ InitStackState

InitFaults ==
    /\ InitSessionState
    /\ InitQueueState
    /\ io = [budget |-> MaxFaults, cap |-> MaxWalPosFaults]
    /\ qio = [budget |-> MaxFaults, cap |-> MaxRecordsFaults]
    /\ fn = NoCall
    /\ InitChannelState
    /\ InitStackState

Next ==
    \/ \E msg \in MessageInputs, now \in NowTimes, fault \in FaultChoices : Append_(msg, now, fault)
    \/ \E rec \in ApprovalInputs, now \in NowTimes, fault \in FaultChoices : AppendApproval(rec, now, fault)
    \/ \E name \in NameInputs, now \in NowTimes, fault \in FaultChoices : Checkpoint(name, now, fault)
    \/ \E name \in NameInputs, fault \in FaultChoices : Resume(name, fault)
    \/ Close
    \/ Crash
    \/ \E keep \in WalKeepChoices(wlog) : NewFileSession(keep)

QueueNext ==
    \/ \E in \in RequestInputs, fault \in QFaultChoices : Request(in[1], in[2], in[3], fault)
    \/ \E id \in IDInputs, c \in ApproveComments, fault \in QFaultChoices : Approve(id, c, fault)
    \/ \E id \in IDInputs, c \in RejectComments, fault \in QFaultChoices : Reject(id, c, fault)
    \/ \E id \in IDInputs, fault \in QFaultChoices : Timeout(id, fault)
    \/ \E keep \in WalKeepChoices(qwal) : Reopen(keep)

\* The session with every WAL write succeeding
Spec == Init /\ [][Next]_vars

\* The session with WAL appends and syncs that may fail
SpecFaults == InitFaults /\ [][Next]_vars

\* The approval queue over its record log, every WAL write succeeding
SpecQueue == Init /\ [][QueueNext]_vars

\* the queue calls that feed the record log (one tool call, asked repeatedly),
\* reopen, and GC
QueueGCNext ==
    \/ Request("s1", "echo", EmptyMap, "ok")
    \/ \E id \in IDInputs : Approve(id, "ok", "ok")
    \/ \E id \in IDInputs : Reject(id, "", "ok")
    \/ \E id \in IDInputs : Timeout(id, "ok")
    \/ \E keep \in WalKeepChoices(qwal) : Reopen(keep)
    \/ \E cfg \in GCConfigs : GC(cfg)

\* The approval queue over its record log, with retention runs on the log
SpecQueueGC == Init /\ [][QueueGCNext]_vars

\* what snapshotRecordsLocked may hand to computeKeepStart: up to MaxEntries
\* entries in the order of their request times
KeepEntries ==
    UNION { { e \in [1..n -> [requested : 1..MaxDay, size : {100, 200}]] :
                \A i \in 1..(n - 1) : e[i].requested <= e[i + 1].requested }
            : n \in 0..MaxEntries }

KeepConfigs ==
    [retentionDays : {0, 1, 2}, retentionCount : {0, 1, 2}, retentionBytes : {0, 150, 300}]

InitKeep ==
    /\ InitSessionState
    /\ InitQueueState
    /\ io = [budget |-> 0, cap |-> MaxWalPos]
    /\ qio = [budget |-> 0, cap |-> MaxRecords]
    /\ InitChannelState
    /\ InitStackState
    /\ \E e \in KeepEntries, cfg \in KeepConfigs :
          fn = [name |-> "computeKeepStart", done |-> FALSE,
                entries |-> [i \in 1..Len(e) |->
                                [id |-> newID(i), requested |-> e[i].requested,
                                 position |-> i - 1, size |-> e[i].size]],
                cfg |-> cfg, now |-> MaxDay, keep |-> 0]

\* the call of computeKeepStart returns
KeepStartReturns ==
    /\ fn.name = "computeKeepStart"
    /\ ~fn.done
    /\ fn' = [fn EXCEPT !.done = TRUE,
                        !.keep = computeKeepStart(fn.entries, fn.cfg, fn.now)]
    /\ UNCHANGED nonFn

\* computeKeepStart on every input of KeepEntries x KeepConfigs
SpecKeep == InitKeep /\ [][KeepStartReturns]_vars

\* The middleware Stack under Use, Remove, the two Execute calls, Start and Stop
SpecStack == Init /\ [][StackNext]_vars

\* The channel WAL under concurrent Appends, Sync, Truncate, ReadSince, close
\* or crash, and reopen
SpecChannel == Init /\ [][ChannelNext]_vars

\* The approval queue with record-log appends and syncs that may fail
SpecQueueFaults == InitFaults /\ [][QueueNext]_vars

----------------------------------------------------------------------------
(* Checkpoints of transcripts around MaxCheckpointBytes *)

\* messages whose JSON makes a payload of exactly the limit, alone or after a
\* message of 60 bytes, and of one byte more
SizeMessageInputs ==
    { [id |-> "", role |-> "user", ts |-> ZeroTime, len |-> n] :
        n \in {60, MaxCheckpointBytes - 2, MaxCheckpointBytes - 1,
               MaxCheckpointBytes - 63, MaxCheckpointBytes - 62} }

SizeNext ==
    \/ \E msg \in SizeMessageInputs, now \in NowTimes : Append_(msg, now, "ok")
    \/ \E name \in CheckpointNames, now \in NowTimes : Checkpoint(name, now, "ok")
    \/ \E name \in CheckpointNames : Resume(name, "ok")
    \/ Close
    \/ \E keep \in WalKeepChoices(wlog) : NewFileSession(keep)

\* The session with transcripts whose checkpoint payload is at, below and
\* above the limit
SpecSize == Init /\ [][SizeNext]_vars

----------------------------------------------------------------------------
(* BashTool.StreamExecute of pkg/tool/builtin: two readers, one accumulator *)

\* the components other than the function call, as constructed
InitRest ==
    /\ InitSessionState
    /\ InitQueueState
    /\ io = [budget |-> 0, cap |-> MaxWalPos]
    /\ qio = [budget |-> 0, cap |-> MaxRecords]
    /\ InitChannelState
    /\ InitStackState

\* the output cap of the bash tool, in characters
maxBashOutputLen == 30000

\* A text is written as the sequence of its pieces: the first n characters of
\* a line of the command's output, or a newline.
RECURSIVE TextLen(_)
TextLen(text) == IF text = <<>> THEN 0 ELSE Head(text).n + TextLen(Tail(text))

\* text[:k]
RECURSIVE TextPrefix(_, _)
TextPrefix(text, k) ==
    IF k <= 0 \/ text = <<>> THEN <<>>
    ELSE IF Head(text).n <= k
         THEN <<Head(text)>> \o TextPrefix(Tail(text), k - Head(text).n)
         ELSE <<[Head(text) EXCEPT !.n = k]>>

\* scanner.Text() of a line
LineText(l) == IF l.len = 0 THEN <<>> ELSE <<[line |-> l.id, n |-> l.len]>>

Newline == <<[line |-> "\n", n |-> 1]>>

EmptyAccumulator == [total |-> 0, stdout |-> <<>>, stderr |-> <<>>]

\* an accumulator that writes the whole text whatever room is left
accAppend_NoTrim(a, text, isStderr) ==
    IF a.total >= maxBashOutputLen THEN a
    ELSE IF isStderr
         THEN [a EXCEPT !.stderr = @ \o text, !.total = @ + TextLen(text)]
         ELSE [a EXCEPT !.stdout = @ \o text, !.total = @ + TextLen(text)]

\* streamAccumulator.append, under a.mu
accAppend(a, text, isStderr) ==
    IF a.total >= maxBashOutputLen THEN a
    ELSE LET remaining == maxBashOutputLen - a.total
             cut == IF TextLen(text) > remaining THEN TextPrefix(text, remaining) ELSE text
         IN  IF isStderr
             THEN [a EXCEPT !.stderr = @ \o cut, !.total = @ + TextLen(cut)]
             ELSE [a EXCEPT !.stdout = @ \o cut, !.total = @ + TextLen(cut)]

\* truncateOutput
truncateOutput(text) ==
    IF TextLen(text) > maxBashOutputLen THEN TextPrefix(text, maxBashOutputLen) ELSE text

\* combineOutput(acc.stdout.String(), acc.stderr.String()): a function of the
\* two builders alone; the text of stdout comes before that of stderr
combineOutput(stdout, stderr) == stdout \o stderr

\* the ToolResult of StreamExecute; Data is written as its keys
streamResult(a) ==
    [output |-> truncateOutput(combineOutput(a.stdout, a.stderr)),
     data   |-> {"workdir", "duration_ms", "timeout_ms"}]

Streams == {"stdout", "stderr"}

\* what the command may write: the lengths of its lines
LineLens == {5, maxBashOutputLen - 1, maxBashOutputLen}

StdoutScripts ==
    {<<>>} \cup { <<[id |-> "o1", len |-> a]>> : a \in LineLens }
          \cup { <<[id |-> "o1", len |-> a], [id |-> "o2", len |-> 5]>> : a \in LineLens }

StderrScripts ==
    {<<>>} \cup { <<[id |-> "e1", len |-> a]>> : a \in LineLens }

InitStream ==
    /\ InitRest
    /\ \E out \in StdoutScripts, err \in StderrScripts :
          fn = [name |-> "StreamExecute", done |-> FALSE, ctxErr |-> FALSE,
                pipe |-> [stdout |-> out, stderr |-> err],
                pc |-> [k \in Streams |-> "scan"],
                line |-> [k \in Streams |-> [id |-> "", len |-> 0]],
                acc |-> EmptyAccumulator,
                emitted |-> <<>>,
                result |-> [output |-> <<>>, data |-> {}]]

Streaming == fn.name = "StreamExecute" /\ ~fn.done

\* consumeStream: scanner.Scan() and, for a line, emit(line, isStderr)
StreamScan(k) ==
    /\ Streaming
    /\ fn.pc[k] = "scan"
    /\ IF fn.pipe[k] = <<>>
       THEN fn' = [fn EXCEPT !.pc[k] = "closed"]
       ELSE fn' = [fn EXCEPT !.pc[k] = "line",
                             !.line[k] = Head(fn.pipe[k]),
                             !.pipe[k] = Tail(@),
                             !.emitted = Append(@, [line |-> Head(fn.pipe[k]),
                                                    isStderr |-> k = "stderr"])]
    /\ UNCHANGED nonFn

\* consumeStream: acc.append(line, isStderr)
StreamAppendLine(k) ==
    /\ Streaming
    /\ fn.pc[k] = "line"
    /\ fn' = [fn EXCEPT !.pc[k] = "newline",
                        !.acc = accAppend(@, LineText(fn.line[k]), k = "stderr")]
    /\ UNCHANGED nonFn

\* consumeStream: acc.append("\n", isStderr), then the check of ctx.Err()
StreamAppendNewline(k) ==
    /\ Streaming
    /\ fn.pc[k] = "newline"
    /\ fn' = [fn EXCEPT !.pc[k] = IF fn.ctxErr THEN "closed" ELSE "scan",
                        !.acc = accAppend(@, Newline, k = "stderr")]
    /\ UNCHANGED nonFn

\* the context of the execution is cancelled or times out
StreamCancel ==
    /\ Streaming
    /\ ~fn.ctxErr
    /\ fn' = [fn EXCEPT !.ctxErr = TRUE]
    /\ UNCHANGED nonFn

\* StreamExecute after wg.Wait(): the result is built and returned
StreamReturn ==
    /\ Streaming
    /\ \A k \in Streams : fn.pc[k] = "closed"
    /\ fn' = [fn EXCEPT !.done = TRUE, !.result = streamResult(fn.acc)]
    /\ UNCHANGED nonFn

StreamNext ==
    \/ \E k \in Streams : StreamScan(k)
    \/ \E k \in Streams : StreamAppendLine(k)
    \/ \E k \in Streams : StreamAppendNewline(k)
    \/ StreamCancel
    \/ StreamReturn

\* StreamExecute on every script of the command, under every interleaving of
\* the two readers
SpecStream == InitStream /\ [][StreamNext]_vars

----------------------------------------------------------------------------
(* The agent loop (spec section 4.2).  One call of Loop is followed through
   its iterations: the call of the model, the dispatch of the tool calls in
   the order of their emission, and the count of the iterations.  The model
   and the tools are the environment: every answer of the model is taken. *)

MaxLoopIterations == 3
MaxToolCalls == 2

\* the tool calls one answer of the model may hold, in the order of emission
ToolCallBatches == { [i \in 1..k |-> i] : k \in 1..MaxToolCalls }

\* Loop is entered: no iteration is counted, no model call is made
InitLoop ==
    /\ InitRest
    /\ \E n \in 1..MaxLoopIterations :
          fn = [name |-> "Loop", state |-> "Thinking", max_iterations |-> n,
                iteration |-> 0, calls |-> 0,
                tool_calls |-> <<>>, results |-> <<>>]

Looping == fn.name = "Loop" /\ fn.state \in {"Thinking", "ToolDispatching"}

\* model.Generate answers done, or without tool calls: the output is returned
LoopGenerateDone ==
    /\ Looping
    /\ fn.state = "Thinking"
    /\ fn' = [fn EXCEPT !.calls = @ + 1, !.state = "Done"]
    /\ UNCHANGED nonFn

\* model.Generate answers with tool calls: they are to be dispatched
LoopGenerateToolCalls(batch) ==
    /\ Looping
    /\ fn.state = "Thinking"
    /\ fn' = [fn EXCEPT !.calls = @ + 1, !.state = "ToolDispatching",
                        !.tool_calls = batch]
    /\ UNCHANGED nonFn

\* the next tool call is dispatched and its result joins the run-context
LoopDispatch ==
    /\ Looping
    /\ fn.state = "ToolDispatching"
    /\ fn.tool_calls # <<>>
    /\ fn' = [fn EXCEPT !.tool_calls = Tail(@),
                        !.results = Append(@, [iteration |-> fn.iteration,
                                               call |-> Head(fn.tool_calls)])]
    /\ UNCHANGED nonFn

\* "Increment iteration; if > max_iterations return a budget exceeded error"
budgetExceeded(iteration, max) == iteration > max

\* the end of an iteration: the count and the test of the budget
LoopIncrement ==
    /\ Looping
    /\ fn.state = "ToolDispatching"
    /\ fn.tool_calls = <<>>
    /\ fn' = [fn EXCEPT !.iteration = @ + 1,
                        !.state = IF budgetExceeded(fn.iteration + 1, fn.max_iterations)
                                  THEN "Error" ELSE "Thinking"]
    /\ UNCHANGED nonFn

LoopNext ==
    \/ LoopGenerateDone
    \/ \E batch \in ToolCallBatches : LoopGenerateToolCalls(batch)
    \/ LoopDispatch
    \/ LoopIncrement

\* one call of Loop, for every budget and every behaviour of the model
SpecLoop == InitLoop /\ [][LoopNext]_vars

----------------------------------------------------------------------------
(* The compactor (spec section 4.10, src/pkg/api/compact_test.go).  One call
   of maybeCompact is followed from the test of the trigger to the replaced
   history.  The threshold is held in hundredths (0.8 is 80), so that the
   ratio tokens / limit is compared without fractions. *)

MaxHistory == 4
MaxSummaryRetries == 2

\* msgWithTokens: the estimated tokens of one message of the history
MessageTokens == {20, 45}

CompactConfigs ==
    [Threshold : {80}, PreserveCount : {1, 2}, MaxRetries : 1..MaxSummaryRetries,
     SummaryModel : {"primary"}, FallbackModel : {"fallback"}]

\* the token limit given to newCompactor
CompactLimit == 100

\* the history of n messages of t tokens each, user and assistant in turn
HistoryOf(n, t) ==
    [i \in 1..n |-> [role |-> IF i % 2 = 1 THEN "user" ELSE "assistant",
                      index |-> i, tokens |-> t]]

RECURSIVE TokenCount(_)
TokenCount(h) == IF h = <<>> THEN 0 ELSE Head(h).tokens + TokenCount(Tail(h))

\* shouldCompact: the ratio of the tokens to the limit reaches the threshold,
\* and the history holds more than the messages to preserve
shouldCompact(cfg, limit, msgCount, tokenCount) ==
    /\ msgCount > cfg.PreserveCount
    /\ tokenCount > 0
    /\ limit > 0
    /\ tokenCount * 100 >= cfg.Threshold * limit

\* the model named in the request of the attempt (attempts count from 0):
\* the last of the MaxRetries + 1 attempts goes to the fallback model
summaryModel(cfg, attempt) ==
    IF attempt = cfg.MaxRetries THEN cfg.FallbackModel ELSE cfg.SummaryModel

\* the history after compaction: the summary, then the preserved tail
compacted(cfg, h) ==
    <<[role |-> "system", index |-> 0, tokens |-> 1]>>
        \o SubSeq(h, Len(h) - cfg.PreserveCount + 1, Len(h))

InitCompact ==
    /\ InitRest
    /\ \E cfg \in CompactConfigs, n \in 0..MaxHistory, t \in MessageTokens :
          fn = [name |-> "maybeCompact", state |-> "check", cfg |-> cfg,
                snapshot |-> HistoryOf(n, t), history |-> HistoryOf(n, t),
                events |-> <<>>, requests |-> <<>>,
                compacted |-> FALSE, err |-> FALSE]

Compacting == fn.name = "maybeCompact"

\* maybeCompact: the trigger; a compaction that is to run emits PreCompact
CompactCheck ==
    /\ Compacting
    /\ fn.state = "check"
    /\ IF shouldCompact(fn.cfg, CompactLimit, Len(fn.snapshot), TokenCount(fn.snapshot))
       THEN fn' = [fn EXCEPT !.state = "hook", !.events = Append(@, "PreCompact")]
       ELSE fn' = [fn EXCEPT !.state = "done"]
    /\ UNCHANGED nonFn

\* the decision of the PreCompact hooks: a deny skips the compaction
CompactHook(deny) ==
    /\ Compacting
    /\ fn.state = "hook"
    /\ fn' = [fn EXCEPT !.state = IF deny THEN "done" ELSE "summarize"]
    /\ UNCHANGED nonFn

\* one attempt of the summarizer: success replaces the history, the failure
\* of the last attempt aborts the compaction
CompactAttempt(ok) ==
    /\ Compacting
    /\ fn.state = "summarize"
    /\ LET attempt == Len(fn.requests)
           req == Append(fn.requests, summaryModel(fn.cfg, attempt))
       IN  IF ok
           THEN fn' = [fn EXCEPT !.requests = req, !.state = "done",
                                 !.history = compacted(fn.cfg, fn.snapshot),
                                 !.events = Append(@, "ContextCompacted"),
                                 !.compacted = TRUE]
           ELSE fn' = [fn EXCEPT !.requests = req,
                                 !.state = IF attempt = fn.cfg.MaxRetries
                                           THEN "done" ELSE "summarize",
                                 !.err = attempt = fn.cfg.MaxRetries]
    /\ UNCHANGED nonFn

CompactNext ==
    \/ CompactCheck
    \/ \E deny \in BOOLEAN : CompactHook(deny)
    \/ \E ok \in BOOLEAN : CompactAttempt(ok)

\* one call of maybeCompact, for every history, configuration, decision of
\* the hooks and behaviour of the summarizer
SpecCompact == InitCompact /\ [][CompactNext]_vars

----------------------------------------------------------------------------
(* FileSession.Fork.  The session "s" is the parent; fn holds the other
   session directories under the same root (root), the ids of the sessions a
   Fork returned and that are still open (open), the session the last Fork
   returned (child) and the arguments of that call (last).  A Fork to the
   id of a session that is open elsewhere is left out: what wal.Open does
   with a directory that another handle holds open is not in the sources. *)

MaxForkPos == 4

ForkIDs == {"c", " "}

\* child.Append(msg) of the loop in Fork, on the object s over the log w
forkAppend(c, id, msg, now) ==
    IF c.err \/ TrimSpace(msg.role) = "" \/ c.s.closed
    THEN [c EXCEPT !.err = TRUE]
    ELSE LET s1    == [c.s EXCEPT !.seq = @ + 1]
             clone == [id   |-> IF msg.id = ""
                                THEN id \o "-" \o Sprintf06d(s1.seq)
                                ELSE msg.id,
                       role |-> msg.role,
                       ts   |-> IF IsZero(msg.ts) THEN UTC(now) ELSE UTC(msg.ts),
                       len  |-> msg.len]
             r     == appendRecord(s1, c.w, recordMessage, MarshalMessage(clone), "ok")
         IN  [s |-> appendMessage(r.s, clone), w |-> r.w, err |-> FALSE]

RECURSIVE forkAppendAll(_, _, _, _, _)
forkAppendAll(c, id, snapshot, i, now) ==
    IF i > Len(snapshot) THEN c
    ELSE forkAppendAll(forkAppend(c, id, snapshot[i], now), id, snapshot, i + 1, now)

\* Fork: NewFileSession(trimmed, s.root) opens root/trimmed, created empty
\* if it is not there, and reloads it; then every message is appended
forkSession(root, id, snapshot, now) ==
    LET dir == IF id \in DOMAIN root THEN root[id] ELSE EmptyWAL
        w1  == WalOpen(dir, dir.next)
        r   == reload(w1)
    IN  IF ~r.ok THEN [s |-> r.s, w |-> w1, err |-> TRUE]
        ELSE forkAppendAll([s |-> r.s, w |-> w1, err |-> FALSE], id, snapshot, 1, now)

InitFork ==
    /\ InitRest
    /\ fn = [name |-> "Fork", root |-> EmptyMap, open |-> {},
             child |-> NewSession, last |-> [id |-> "", res |-> "none"]]

Fork(id, now) ==
    /\ Usable
    /\ fn.name = "Fork"
    /\ LET trimmed == TrimSpace(id) IN
       IF trimmed = ""
       THEN fn' = [fn EXCEPT !.last = [id |-> id, res |-> "invalid"]]
       ELSE /\ trimmed \notin fn.open
            /\ LET snapshot == fs.messages
                   c == forkSession(fn.root, trimmed, snapshot, now)
               IN  /\ c.w.next <= MaxForkPos
                   /\ fn' = IF c.err
                            THEN [fn EXCEPT !.root = Put(@, trimmed, c.w),
                                            !.last = [id |-> id, res |-> "error"]]
                            ELSE [fn EXCEPT !.root = Put(@, trimmed, c.w),
                                            !.open = @ \cup {trimmed},
                                            !.child = c.s,
                                            !.last = [id |-> id, res |-> "ok"]]
    /\ UNCHANGED nonFn

\* Close of a session that a Fork returned
ForkedClose(id) ==
    /\ fn.name = "Fork"
    /\ id \in fn.open
    /\ fn' = [fn EXCEPT !.open = @ \ {id}]
    /\ UNCHANGED nonFn

ForkNext ==
    \/ \E msg \in MessageInputs, now \in NowTimes : Append_(msg, now, "ok")
    \/ \E rec \in ApprovalInputs, now \in NowTimes : AppendApproval(rec, now, "ok")
    \/ \E id \in ForkIDs, now \in NowTimes : Fork(id, now)
    \/ \E id \in ForkIDs : ForkedClose(id)

\* the parent session appended to and forked, every WAL write succeeding
SpecFork == InitFork /\ [][ForkNext]_vars

----------------------------------------------------------------------------
(* Whitelist of pkg/approval over params of every shape.  A Go value is
   written with its dynamic type: [type |-> "map[string]any", v |-> a
   function from keys to values], [type |-> "[]any", v |-> a sequence of
   values], [type |-> "[]string", v |-> a sequence of strings], or a scalar
   ("int", "float64", "string").  A Go map has no order of its own: `range`
   hands its keys out in an order that differs from run to run, given here
   as a sequence that lists every key. *)

\* every key of the maps of the model, as sort.Strings orders them
KeyOrder == <<"a", "b", "l", "m">>

Reverse(seq) == [i \in 1..Len(seq) |-> seq[Len(seq) + 1 - i]]

\* the orders in which `range` may hand out the keys
RangeOrders == {KeyOrder, Reverse(KeyOrder)}

\* for k := range val { keys = append(keys, k) }
rangeKeys(m, order) == SelectSeq(order, LAMBDA k : k \in DOMAIN m)

\* a sort that leaves the keys as they came
sortStrings_Unsorted(keys) == keys

\* sort.Strings(keys)
sortStrings(keys) == SelectSeq(KeyOrder, LAMBDA k : \E i \in 1..Len(keys) : keys[i] = k)

StrVal(str) == [type |-> "string", v |-> str]
MapVal(m) == [type |-> "map[string]any", v |-> m]
AnySlice(seq) == [type |-> "[]any", v |-> seq]
StringSlice(seq) == [type |-> "[]string", v |-> seq]

RECURSIVE encodeValueIn(_, _)
RECURSIVE encodeEntries(_, _, _, _)
RECURSIVE encodeItems(_, _, _)
RECURSIVE encodeStrings(_, _)

\* encodeValue, with the order in which `range` hands out the keys of a map
encodeValueIn(val, order) ==
    CASE val.type = "map[string]any" ->
             "{" \o encodeEntries(val.v, sortStrings(rangeKeys(val.v, order)), 1, order) \o "}"
      [] val.type = "[]any" -> "[" \o encodeItems(val.v, 1, order) \o "]"
      [] val.type = "[]string" -> "[" \o encodeStrings(val.v, 1) \o "]"
      [] OTHER -> fmtV(val)

encodeEntries(m, keys, i, order) ==
    IF i > Len(keys) THEN ""
    ELSE keys[i] \o ":" \o encodeValueIn(m[keys[i]], order) \o ";"
         \o encodeEntries(m, keys, i + 1, order)

encodeItems(items, i, order) ==
    IF i > Len(items) THEN ""
    ELSE encodeValueIn(items[i], order) \o "," \o encodeItems(items, i + 1, order)

encodeStrings(items, i) ==
    IF i > Len(items) THEN ""
    ELSE items[i] \o "," \o encodeStrings(items, i + 1)

\* hashParams (the SHA-256 is kept as the encoding: distinct encodings hash apart)
hashParamsIn(params, order) ==
    IF DOMAIN params = {} THEN "empty" ELSE encodeValueIn(MapVal(params), order)

\* Whitelist.key
keyIn(sessionID, tool, params, order) ==
    sessionID \o "|" \o tool \o "|" \o hashParamsIn(params, order)

MaxWhitelistAdds == 2

WlSessions == {"s1", "s1|t"}
WlTools == {"u", "t|u"}

\* The params of the model, pairwise structurally different; a call is given
\* the name of its params, so that two params are equal exactly when their
\* names are.
WlParams == {"none", "ints", "strings", "joined", "nested", "listed", "any", "typed"}

ParamsOf(name) ==
    CASE name = "none" -> EmptyMap
      [] name = "ints" -> [k \in {"a", "b"} |-> IF k = "a" THEN IntVal(1) ELSE IntVal(2)]
      [] name = "strings" -> [k \in {"a", "b"} |-> IF k = "a" THEN StrVal("1") ELSE StrVal("2")]
      [] name = "joined" -> [k \in {"a"} |-> StrVal("1;b:2")]
      [] name = "nested" ->
             [k \in {"m"} |-> MapVal([j \in {"a", "b"} |->
                                         IF j = "a" THEN IntVal(1) ELSE IntVal(2)])]
      [] name = "listed" ->
             [k \in {"l"} |-> AnySlice(<<MapVal([j \in {"a", "b"} |-> StrVal(j)])>>)]
      [] name = "any" -> [k \in {"l"} |-> AnySlice(<<StrVal("x"), StrVal("y")>>)]
      [] name = "typed" -> [k \in {"l"} |-> StringSlice(<<"x", "y">>)]

\* NewWhitelist
InitWhitelist ==
    /\ InitRest
    /\ fn = [name |-> "Whitelist", entries |-> {}, added |-> {},
             last |-> [op |-> "NewWhitelist", session |-> "", tool |-> "",
                      params |-> "none", order |-> KeyOrder, key |-> "", res |-> FALSE]]

\* Whitelist.Add
WhitelistAddCall(sessionID, tool, params, order) ==
    /\ fn.name = "Whitelist"
    /\ Cardinality(fn.added) < MaxWhitelistAdds
    /\ LET k == keyIn(sessionID, tool, ParamsOf(params), order)
       IN  fn' = [fn EXCEPT !.entries = @ \cup {k},
                           !.added = @ \cup {<<sessionID, tool, params>>},
                           !.last = [op |-> "Add", session |-> sessionID, tool |-> tool,
                                     params |-> params, order |-> order, key |-> k,
                                     res |-> TRUE]]
    /\ UNCHANGED nonFn

\* Whitelist.Allowed
WhitelistAllowedCall(sessionID, tool, params, order) ==
    /\ fn.name = "Whitelist"
    /\ LET k == keyIn(sessionID, tool, ParamsOf(params), order)
       IN  fn' = [fn EXCEPT !.last = [op |-> "Allowed", session |-> sessionID,
                                     tool |-> tool, params |-> params, order |-> order,
                                     key |-> k, res |-> k \in fn.entries]]
    /\ UNCHANGED nonFn

WhitelistNext ==
    \/ \E s \in WlSessions, t \in WlTools, p \in WlParams, o \in RangeOrders :
          WhitelistAddCall(s, t, p, o)
    \/ \E s \in WlSessions, t \in WlTools, p \in WlParams, o \in RangeOrders :
          WhitelistAllowedCall(s, t, p, o)

\* a whitelist added to and asked, over params of every shape
SpecWhitelist == InitWhitelist /\ [][WhitelistNext]_vars

----------------------------------------------------------------------------
(* The statistics of the record log's GC.  fn holds l.gc.metrics (runs,
   totalDropped, last) and, as history, how many records the runs have
   removed from the index (removed) and how many the last run did
   (lastRemoved).  wal.Truncate may fail, which leaves the log as it is. *)

MaxGCRuns == 2

\* the statistics of a run that drops nothing
EmptyGCStats == [BeforeCount |-> 0, Dropped |-> 0, AfterCount |-> 0, Err |-> FALSE]

\* runGCWithConfig: the statistics are filled in before the WAL is cut; a
\* failed Truncate returns them as they are and leaves records, positions
\* and entrySize alone
runGCStats(l, w, cfg, now, truncateFails) ==
    LET r      == runGCWithConfig(l, w, cfg, now)
        before == Cardinality(DOMAIN l.records)
    IN  IF before = 0
        THEN [l |-> l, w |-> w, stats |-> EmptyGCStats]
        ELSE IF r.dropped = {}
        THEN [l |-> l, w |-> w,
              stats |-> [BeforeCount |-> before, Dropped |-> 0,
                         AfterCount |-> before, Err |-> FALSE]]
        ELSE LET stats == [BeforeCount |-> before,
                           Dropped     |-> Cardinality(r.dropped),
                           AfterCount  |-> before - Cardinality(r.dropped),
                           Err         |-> truncateFails]
             IN  IF truncateFails
                 THEN [l |-> l, w |-> w, stats |-> stats]
                 ELSE [l |-> r.l, w |-> r.w, stats |-> stats]

\* recordGCStats
recordGCStats(metrics, stats) ==
    [runs         |-> metrics.runs + 1,
     totalDropped |-> metrics.totalDropped + stats.Dropped,
     last         |-> stats]

InitGCStats ==
    /\ InitRest
    /\ fn = [name |-> "GCStatus",
             metrics |-> [runs |-> 0, totalDropped |-> 0, last |-> EmptyGCStats],
             removed |-> 0, lastRemoved |-> 0]

\* RecordLog.GC, with the statistics it returns and records
GCRun(cfg, truncateFails) ==
    /\ fn.name = "GCStatus"
    /\ fn.metrics.runs < MaxGCRuns
    /\ LET r    == runGCStats(rl, qwal, cfg, qNow, truncateFails)
           gone == Cardinality(DOMAIN rl.records) - Cardinality(DOMAIN r.l.records)
       IN  /\ truncateFails => r.stats.Err
           /\ rl' = r.l
           /\ qwal' = r.w
           /\ qLast' = [op |-> "GC", id |-> "",
                        res |-> IF r.stats.Err THEN "error" ELSE "ok", auto |-> FALSE]
           /\ fn' = [fn EXCEPT !.metrics = recordGCStats(@, r.stats),
                               !.removed = @ + gone,
                               !.lastRemoved = gone]
    /\ UNCHANGED <<q, issued, hist, qio>>
    /\ UNCHANGED <<svars, cvars, mvars>>

GCStatsNext ==
    \/ Request("s1", "echo", EmptyMap, "ok")
    \/ \E id \in IDInputs : Approve(id, "ok", "ok")
    \/ \E cfg \in GCConfigs, truncateFails \in BOOLEAN : GCRun(cfg, truncateFails)

\* The record log fed by the queue, with retention runs whose Truncate may fail
SpecGCStats == InitGCStats /\ [][GCStatsNext]_vars

----------------------------------------------------------------------------
(* The automatic GC of the record log: StartAutoGC, StopAutoGC, ConfigureGC
   and the goroutine autoGCLoop.  fn holds l.gcTicker (the number of the loop
   whose ticker, stop and done channels the log references, 0 for nil),
   l.gc.cfg.interval, the loops ever created (ran: the loop has run an
   automatic GC), the callers and the number of calls each may make.  A section
   under l.gc.mu never blocks, so it is one step; the steps outside the lock
   interleave freely.  A loop is "created" (channels made, goroutine not yet
   started), "running", "exited" (done closed by the goroutine) or "aborted"
   (channels closed by startAutoGC, goroutine never started). *)

MaxLoops == 3
MaxCalls == 3
MaxConcurrentCalls == 2

Intervals == {1, 2}

IdleCaller == [pc |-> "idle", op |-> "", interval |-> 0, force |-> FALSE,
               cur |-> 0, calls |-> 0]

InitAutoGCWith(callers, maxCalls) ==
    /\ InitRest
    /\ fn = [name |-> "AutoGC", gcTicker |-> 0, interval |-> 0, loops |-> <<>>,
             th |-> [t \in callers |-> IdleCaller], maxCalls |-> maxCalls,
             quiet |-> FALSE]

Callers == IF fn.name = "AutoGC" THEN DOMAIN fn.th ELSE {}

\* a wait that does not wait
doneClosed_NoWait(loops, id) == TRUE

\* <-done: the channel is closed by the goroutine on exit, or by the
\* startAutoGC that gave its loop up
doneClosed(loops, id) == loops[id].state \in {"exited", "aborted"}

\* ticker.Stop() and close(stop) on the loop id
stopLoop(loops, id) == [loops EXCEPT ![id].stopped = TRUE]

\* a call returns: after StopAutoGC, auto GC is off until it is enabled again
return(t) ==
    [fn EXCEPT !.th[t].pc = "idle", !.quiet = @ \/ fn.th[t].op = "StopAutoGC"]

\* StartAutoGC(interval): a call begins
StartAutoGC(t, interval) ==
    /\ fn.th[t].pc = "idle" /\ fn.th[t].calls < fn.maxCalls
    /\ fn' = [fn EXCEPT !.th[t] = [pc |-> IF interval <= 0 THEN "stop" ELSE "start",
                                   op |-> "StartAutoGC", interval |-> interval,
                                   force |-> FALSE, cur |-> 0, calls |-> @.calls + 1],
                        !.quiet = @ /\ interval <= 0]
    /\ UNCHANGED nonFn

\* StopAutoGC(): a call begins
CallStopAutoGC(t) ==
    /\ fn.th[t].pc = "idle" /\ fn.th[t].calls < fn.maxCalls
    /\ fn' = [fn EXCEPT !.th[t] = [pc |-> "stop", op |-> "StopAutoGC", interval |-> 0,
                                   force |-> FALSE, cur |-> 0, calls |-> @.calls + 1]]
    /\ UNCHANGED nonFn

\* ConfigureGC: the section under the lock and the switch after it
\* (withInterval: WithGCInterval(d) is among the options)
ConfigureGC(t, withInterval, d) ==
    /\ fn.th[t].pc = "idle" /\ fn.th[t].calls < fn.maxCalls
    /\ LET oldInterval == fn.interval
           running     == fn.gcTicker # 0
           newInterval == IF withInterval THEN d ELSE fn.interval
           pc == IF newInterval <= 0 THEN (IF running THEN "stop" ELSE "idle")
                 ELSE IF ~running THEN "start"
                 ELSE IF oldInterval # newInterval THEN "start"
                 ELSE "idle"
       IN  fn' = [fn EXCEPT !.interval = newInterval,
                           !.th[t] = [pc |-> pc, op |-> "ConfigureGC",
                                      interval |-> newInterval,
                                      force |-> running /\ newInterval > 0,
                                      cur |-> 0, calls |-> @.calls + 1],
                           !.quiet = @ /\ newInterval <= 0]
    /\ UNCHANGED nonFn

\* StopAutoGC, step by step
StopAutoGC(t) ==
    /\ \/ \* under the lock: take the loop off the log, interval = 0
          /\ fn.th[t].pc = "stop"
          /\ fn' = IF fn.gcTicker = 0
                   THEN [return(t) EXCEPT !.interval = 0]
                   ELSE [fn EXCEPT !.th[t].pc = "stopSignal", !.th[t].cur = fn.gcTicker,
                                   !.gcTicker = 0, !.interval = 0]
       \/ \* after the lock: ticker.Stop(), close(stop)
          /\ fn.th[t].pc = "stopSignal"
          /\ fn' = [fn EXCEPT !.th[t].pc = "stopWait",
                              !.loops = stopLoop(@, fn.th[t].cur)]
       \/ \* <-done
          /\ fn.th[t].pc = "stopWait"
          /\ doneClosed(fn.loops, fn.th[t].cur)
          /\ fn' = return(t)
    /\ UNCHANGED nonFn

\* startAutoGC with a positive interval, step by step
startAutoGC(t) ==
    /\ \/ \* under the lock the first time: take the current loop off the log
          /\ fn.th[t].pc = "start"
          /\ LET sameInterval == fn.gcTicker # 0 /\ fn.interval = fn.th[t].interval
             IN  fn' = IF sameInterval /\ ~fn.th[t].force
                       THEN return(t)
                       ELSE [fn EXCEPT !.th[t].pc = IF fn.gcTicker # 0
                                                    THEN "startSignal" ELSE "startNew",
                                       !.th[t].cur = fn.gcTicker,
                                       !.gcTicker = 0,
                                       !.interval = fn.th[t].interval]
       \/ \* currentTicker.Stop(), close(currentStop)
          /\ fn.th[t].pc = "startSignal"
          /\ fn' = [fn EXCEPT !.th[t].pc = "startWait",
                              !.loops = stopLoop(@, fn.th[t].cur)]
       \/ \* <-currentDone
          /\ fn.th[t].pc = "startWait"
          /\ doneClosed(fn.loops, fn.th[t].cur)
          /\ fn' = [fn EXCEPT !.th[t].pc = "startNew"]
       \/ \* the new ticker and channels, then under the lock the second
          \* time: install them, or give them up when the interval was
          \* changed or another loop was installed meanwhile
          /\ fn.th[t].pc = "startNew"
          /\ Len(fn.loops) < MaxLoops
          /\ LET id == Len(fn.loops) + 1
             IN  IF fn.interval # fn.th[t].interval \/ fn.gcTicker # 0
                 THEN fn' = [return(t) EXCEPT
                                !.loops = Append(@, [state |-> "aborted", stopped |-> TRUE,
                                                     tick |-> FALSE, ran |-> FALSE])]
                 ELSE fn' = [fn EXCEPT
                                !.th[t].pc = "startGo", !.th[t].cur = id,
                                !.gcTicker = id,
                                !.loops = Append(@, [state |-> "created", stopped |-> FALSE,
                                                     tick |-> FALSE, ran |-> FALSE])]
       \/ \* go l.autoGCLoop(ticker, stop, done)
          /\ fn.th[t].pc = "startGo"
          /\ fn' = [return(t) EXCEPT !.loops[fn.th[t].cur].state = "running"]
    /\ UNCHANGED nonFn

LoopIds == IF fn.name = "AutoGC" THEN 1..Len(fn.loops) ELSE {}

\* the ticker of a loop fires: a tick waits in t.C
TickerFire(id) ==
    /\ fn.loops[id].state \in {"created", "running"}
    /\ ~fn.loops[id].stopped
    /\ ~fn.loops[id].tick
    /\ fn' = [fn EXCEPT !.loops[id].tick = TRUE]
    /\ UNCHANGED nonFn

\* the goroutine of a loop
autoGCLoop(id) ==
    /\ fn.loops[id].state = "running"
    /\ \/ \* case <-t.C: an automatic GC run
          /\ fn.loops[id].tick
          /\ fn' = [fn EXCEPT !.loops[id].tick = FALSE, !.loops[id].ran = TRUE]
       \/ \* case <-stop: return, and the deferred close(done)
          /\ fn.loops[id].stopped
          /\ fn' = [fn EXCEPT !.loops[id].state = "exited"]
    /\ UNCHANGED nonFn

AutoGCNext ==
    \/ \E t \in Callers, i \in {0} \cup Intervals : StartAutoGC(t, i)
    \/ \E t \in Callers : CallStopAutoGC(t)
    \/ \E t \in Callers, withInterval \in BOOLEAN, d \in {0} \cup Intervals :
            ConfigureGC(t, withInterval, d)
    \/ \E t \in Callers : StopAutoGC(t)
    \/ \E t \in Callers : startAutoGC(t)
    \/ \E id \in LoopIds : TickerFire(id)
    \/ \E id \in LoopIds : autoGCLoop(id)

\* one caller at a time, with the loop goroutine running beside it
SpecAutoGC == InitAutoGCWith({"c1"}, MaxCalls) /\ [][AutoGCNext]_vars

\* two callers whose calls interleave
SpecAutoGCConcurrent == InitAutoGCWith({"c1", "c2"}, MaxConcurrentCalls) /\ [][AutoGCNext]_vars

----------------------------------------------------------------------------
(* FileEventStore of pkg/event over the channel WAL.  fn holds the store's
   WAL, the events its Append calls accepted, and the last call with its
   result.  An event is its type, its bookmark (seq, channel) and its
   timestamp; a nil bookmark argument is [nil |-> TRUE]. *)

MaxEvents == 3
MaxSeq == 2

\* the channel of an event type: the model's types are named by their channel
channelForType(type) == type

\* the event as the store writes it: the timestamp in UTC, the bookmark kept
normalizeEvent(evt) == [evt EXCEPT !.timestamp = UTC(@)]

\* json.Marshal / json.Unmarshal of one Event
MarshalEvent(evt) ==
    [type |-> evt.type, timestamp |-> MarshalTime(evt.timestamp),
     bookmark |-> evt.bookmark]

UnmarshalEvent(j) ==
    [type |-> j.type, timestamp |-> UnmarshalTime(j.timestamp),
     bookmark |-> j.bookmark]

EventInputs ==
    { [type |-> ty, timestamp |-> [t |-> t, loc |-> "UTC"],
       bookmark |-> [seq |-> n, channel |-> channelForType(ty)]] :
        ty \in Channels, t \in 1..2, n \in 1..MaxSeq }

NilBookmark == [nil |-> TRUE, seq |-> 0]

BookmarkInputs == {NilBookmark} \cup { [nil |-> FALSE, seq |-> n] : n \in 0..MaxSeq }

\* appendWALLocked: wal.Append on the channel of the type, then wal.Sync
appendWALLocked(w, evt) ==
    LET ch  == channelForType(evt.type)
        pos == w.logs[ch].next
    IN  cwSync(cwSetLatest(cwLogAppend(w, ch, evt.type, MarshalEvent(evt)), ch, pos), ch)

\* the events of the channels' logs, read from position 0, in channelOrder
RECURSIVE readChannels(_, _)
readChannels(w, i) ==
    IF i > Len(channelOrder) THEN <<>>
    ELSE LET entries == cwReadSince(w, channelOrder[i], 0)
         IN  [k \in 1..Len(entries) |-> UnmarshalEvent(entries[k].data)]
                 \o readChannels(w, i + 1)

\* the less function of the sort in walEventsLocked: seq, then timestamp
eventLess(a, b) ==
    IF a.bookmark.seq = b.bookmark.seq
    THEN a.timestamp.t < b.timestamp.t
    ELSE a.bookmark.seq < b.bookmark.seq

\* walEventsLocked: the orders sort.Slice may leave the events in (the sort
\* is not stable: events that eventLess does not tell apart come in any order)
walEventsLocked(w) ==
    LET events == readChannels(w, 1)
        n      == Len(events)
        perms  == { p \in [1..n -> 1..n] : \A i, j \in 1..n : i # j => p[i] # p[j] }
    IN  { [i \in 1..n |-> events[p[i]]] : p \in
            { o \in perms : \A i, j \in 1..n :
                               i < j => ~eventLess(events[o[j]], events[o[i]]) } }

\* a filter that lets the event of the start bookmark through
filterEvents_FromStart(events, start, end) ==
    SelectSeq(events, LAMBDA evt : start.nil \/ evt.bookmark.seq >= start.seq)

\* filterEvents: skip the events up to start, break at the first one after end
filterEvents(events, start, end) ==
    LET later  == SelectSeq(events, LAMBDA evt : ~(~start.nil /\ evt.bookmark.seq <= start.seq))
        beyond == { i \in 1..Len(later) : ~end.nil /\ later[i].bookmark.seq > end.seq }
    IN  IF beyond = {} THEN later ELSE SubSeq(later, 1, MinOf(beyond) - 1)

InitEvents ==
    /\ InitRest
    /\ fn = [name |-> "EventStore", wal |-> NewWAL([ch \in Channels |-> EmptyWAL]),
             appended |-> <<>>, op |-> "NewFileEventStore", arg |-> NilBookmark,
             out |-> <<>>]

\* FileEventStore.Append(evt)
EventAppend(evt) ==
    /\ Len(fn.appended) < MaxEvents
    /\ fn' = [fn EXCEPT !.wal = appendWALLocked(@, normalizeEvent(evt)),
                        !.appended = Append(@, evt),
                        !.op = "Append", !.arg = NilBookmark, !.out = <<>>]
    /\ UNCHANGED nonFn

\* FileEventStore.ReadSince(bookmark)
EventReadSince(bookmark) ==
    /\ \E events \in walEventsLocked(fn.wal) :
          fn' = [fn EXCEPT !.op = "ReadSince", !.arg = bookmark,
                           !.out = filterEvents(events, bookmark, NilBookmark)]
    /\ UNCHANGED nonFn

EventsNext ==
    \/ \E evt \in EventInputs : EventAppend(evt)
    \/ \E bookmark \in BookmarkInputs : EventReadSince(bookmark)

SpecEvents == InitEvents /\ [][EventsNext]_vars

----------------------------------------------------------------------------
(* Properties of the session *)

\* The checkpoint snapshots a session holds, by name
SnapshotsOf(s) == [c \in DOMAIN s.checkpoints |-> s.checkpoints[c].snapshot]

\* C1: a successful Resume(c) leaves as transcript exactly the message
\* sequence that existed when Checkpoint(c) last succeeded, whatever was
\* appended since and whether or not the session was reopened in between.
C1_ResumeRestoresCheckpoint ==
    (lastOp.op = "Resume" /\ lastOp.res = "ok") => fs.messages = taken[lastOp.arg].msgs

\* C1 witness: a Resume succeeded on a non-empty checkpoint taken before a
\* reopen, with a message appended after the checkpoint record.
C1_Witness ==
    /\ lastOp.op = "Resume" /\ lastOp.res = "ok"
    /\ taken[lastOp.arg].reopened
    /\ Len(taken[lastOp.arg].msgs) >= 1
    /\ fs.messages = taken[lastOp.arg].msgs
    /\ \E i \in 1..Len(wlog.entries) :
          /\ wlog.entries[i].type = recordMessage
          /\ wlog.entries[i].position > fs.checkpoints[lastOp.arg].position

\* C2: every reopen of the session succeeds and yields the transcript and the
\* checkpoints (names and snapshots) the session held before.
C2_ReopenRoundTrip ==
    [][lastOp'.op = "Open" =>
          /\ lastOp'.res = "ok"
          /\ fs'.messages = fs.messages
          /\ SnapshotsOf(fs') = SnapshotsOf(fs)]_vars

\* C3: List with the empty filter returns exactly the messages of the
\* successful Appends since the last Resume, in the order of the Appends.
C3_ListReturnsAppendsInOrder ==
    (handle = "live" /\ ~fs.closed) => List(fs, EmptyFilter) = appended

\* C3 witness: two different messages were appended, the session was reopened,
\* and List returns them in order.
C3_Witness ==
    /\ handle = "live" /\ ~fs.closed
    /\ lastOp.op = "Open"
    /\ Len(appended) >= 2
    /\ appended[1].role # appended[2].role
    /\ List(fs, EmptyFilter) = appended

\* C4: when the WAL append or sync fails in Append, the transcript, the
\* sequence counter and the cursors are what they were before the call.
C4_AppendFailureRollsBack ==
    [][(lastOp'.op = "Append" /\ lastOp'.res = "walerr") =>
          /\ fs'.messages = fs.messages
          /\ fs'.seq = fs.seq
          /\ fs'.cursors = fs.cursors]_vars

----------------------------------------------------------------------------
(* Properties of the approval queue *)

Terminal == {DecisionApproved, DecisionRejected, DecisionTimeout}

Decides == {"Approve", "Reject", "Timeout"}

\* the record the last Request returned
Returned == q.index[qLast.id]

RequestReturned == qLast.op = "Request" /\ qLast.res = "ok"

\* C5: a record never leaves the index; a decided record keeps its decision
\* through every call and every reopen; a pending record changes only to
\* approved, rejected or timeout; and an Approve, Reject or Timeout succeeds
\* only on an id whose decision was pending.
C5_DecidedOnce ==
    [][/\ \A id \in DOMAIN q.index :
             /\ id \in DOMAIN q'.index
             /\ q.index[id].decision \in Terminal =>
                    q'.index[id].decision = q.index[id].decision
             /\ q.index[id].decision = DecisionPending =>
                    q'.index[id].decision \in Terminal \cup {DecisionPending}
       /\ (qLast'.op \in Decides /\ qLast'.res = "ok") =>
             /\ qLast'.id \in DOMAIN q.index
             /\ q.index[qLast'.id].decision = DecisionPending
             /\ q'.index[qLast'.id].decision \in Terminal]_vars

\* C5 witness: after a reopen the queue holds a record approved by a reviewer,
\* a rejected one and a timed-out one.
C5_Witness ==
    /\ qLast.op = "Reopen"
    /\ \E a, b, c \in DOMAIN q.index :
          /\ q.index[a].decision = DecisionApproved /\ ~q.index[a].auto
          /\ q.index[b].decision = DecisionRejected
          /\ q.index[c].decision = DecisionTimeout
    /\ DOMAIN q.pending = {}

\* C6: once an Approve has approved a request for (session, tool, params),
\* every later Request for the same session, tool and params returns an
\* approved record with auto = true and adds nothing to the pending map.
C6_ApprovedIsAutoApproved ==
    (RequestReturned /\ Triple(Returned) \in hist.approved) =>
        /\ Returned.decision = DecisionApproved
        /\ Returned.auto
        /\ qLast.auto
        /\ qLast.id \notin DOMAIN q.pending

ApprovedElsewhere ==
    \E id \in DOMAIN q.index \ {qLast.id} :
        /\ q.index[id].decision = DecisionApproved
        /\ Triple(q.index[id]) = Triple(Returned)

C8_ReopenKeepsAutoApproval ==
    [][qLast'.op = "Reopen" =>
          \A id \in DOMAIN q.index :
              q.index[id].decision = DecisionApproved =>
                  Allowed(q'.whitelist, q.index[id].session, q.index[id].tool,
                          q.index[id].params)]_vars

\* C9: a reopen rebuilds the queue: Lookup knows the same ids with the
\* decisions they had, and Pending holds exactly the records whose decision
\* is pending.
C9_ReopenRebuildsQueue ==
    [][qLast'.op = "Reopen" =>
          /\ DOMAIN q'.index = DOMAIN q.index
          /\ \A id \in DOMAIN q.index :
                 q'.index[id].decision = q.index[id].decision
          /\ DOMAIN q'.pending =
                 {id \in DOMAIN q.index : q.index[id].decision = DecisionPending}
          /\ \A id \in DOMAIN q'.pending : q'.pending[id] = q'.index[id]]_vars

\* C9 witness: a reopened queue with a pending record, a record a reviewer
\* approved and a rejected record.
C9_Witness ==
    /\ qLast.op = "Reopen"
    /\ \E a, b, c \in DOMAIN q.index :
          /\ q.index[a].decision = DecisionPending /\ a \in DOMAIN q.pending
          /\ q.index[b].decision = DecisionApproved /\ ~q.index[b].auto
          /\ q.index[c].decision = DecisionRejected

\* C10: the record a Request returned without error is durable in the record
\* log when Request returns.
C10_ReturnedRecordIsPersisted ==
    RequestReturned =>
        \E i \in 1..Len(qwal.entries) :
            /\ qwal.entries[i].data.id = qLast.id
            /\ qwal.entries[i].position < qwal.synced

----------------------------------------------------------------------------
(* Properties of the record log's GC *)

\* what a record log knows: the decision of every id it holds
Decisions(l) == [id \in DOMAIN l.records |-> l.records[id].decision]

\* C11: when the record log is reopened right after a GC, it holds exactly
\* the ids the index held after the GC, each with the decision it had: no
\* dropped record is back and no kept record is gone.
C11_ReopenAfterGC ==
    [][(qLast.op = "GC" /\ qLast'.op = "Reopen") => Decisions(rl') = Decisions(rl)]_vars

\* the earliest position at which the log l holds a record
OldestKeptPosition(l) == MinOf({l.positions[id] : id \in DOMAIN l.records})

\* C13: a GC leaves in the WAL every entry whose position is at or after the
\* earliest position of a record the GC kept.
C13_TruncateSparesKeptPositions ==
    [][(qLast'.op = "GC" /\ DOMAIN rl'.records # {}) =>
          \A i \in 1..Len(qwal.entries) :
              qwal.entries[i].position >= OldestKeptPosition(rl') =>
                  \E j \in 1..Len(qwal'.entries) : qwal'.entries[j] = qwal.entries[i]]_vars

\* C14: Appends and GCs being serialized by the log's lock, a GC that runs
\* between them leaves every record it keeps in the index, unchanged, and
\* leaves the entry that Append wrote for it in the WAL.
C14_GCSparesKeptRecords ==
    [][qLast'.op = "GC" =>
          \A id \in DOMAIN rl'.records :
              /\ rl'.records[id] = rl.records[id]
              /\ \E j \in 1..Len(qwal'.entries) :
                     /\ qwal'.entries[j].position = rl.positions[id]
                     /\ qwal'.entries[j].data.id = id]_vars

\* the entries from index `from` (counted from 0) on satisfy every active
\* threshold of cfg on day `now`
SatisfiesPolicy(entries, from, cfg, now) ==
    /\ cfg.retentionDays > 0 =>
           \A i \in (from + 1)..Len(entries) : entries[i].requested >= now - cfg.retentionDays
    /\ cfg.retentionCount > 0 => Len(entries) - from <= cfg.retentionCount
    /\ cfg.retentionBytes > 0 => sizeFrom(entries, from + 1) <= cfg.retentionBytes

\* C12: computeKeepStart returns the start of the longest run of most recent
\* entries that satisfies every active threshold: the kept entries are within
\* retention_days, at most retention_count and at most retention_bytes in
\* total, and keeping one entry more would break a threshold.
C12_KeepsMostRecentWithinPolicy ==
    (fn.name = "computeKeepStart" /\ fn.done) =>
        /\ fn.keep \in 0..Len(fn.entries)
        /\ SatisfiesPolicy(fn.entries, fn.keep, fn.cfg, fn.now)
        /\ fn.keep > 0 => ~SatisfiesPolicy(fn.entries, fn.keep - 1, fn.cfg, fn.now)

\* C12 witness: with all three thresholds active, some entries are dropped and
\* some are kept, and the byte limit alone decides where.
C12_Witness ==
    /\ fn.name = "computeKeepStart" /\ fn.done
    /\ fn.cfg.retentionDays > 0 /\ fn.cfg.retentionCount > 0 /\ fn.cfg.retentionBytes > 0
    /\ 0 < fn.keep /\ fn.keep < Len(fn.entries)
    /\ Len(fn.entries) - (fn.keep - 1) <= fn.cfg.retentionCount
    /\ fn.entries[fn.keep].requested >= fn.now - fn.cfg.retentionDays

----------------------------------------------------------------------------
(* Channel WAL: durability, truncation, replay and cursors *)

Holds(w, ch, e) == \E i \in 1..Len(w.logs[ch].entries) : w.logs[ch].entries[i] = e

\* C15, as stated: once Append has returned p and a Sync has succeeded, the
\* log reopened after any later crash holds an entry at p with the same type
\* and payload.
C15_SyncedEntrySurvives ==
    cwLast.op = "NewWAL" =>
        \A a \in cwHist.acked : Holds(cw, a.ch, a.entry)

\* C15, amended: once Append has returned p and a Sync has succeeded, the log
\* reopened after any later crash holds an entry at p with the same type and
\* payload, unless a Truncate(k) with k > p was called in between.
C15_SyncedEntrySurvivesUnlessTruncated ==
    cwLast.op = "NewWAL" =>
        \A a \in cwHist.acked :
            a.entry.position >= cwHist.cut[a.ch] => Holds(cw, a.ch, a.entry)

\* a reopen after a crash that lost an entry appended after the last Sync of
\* a channel with durable entries that no Truncate has reached
C15_Witness ==
    /\ cwLast.op = "NewWAL"
    /\ \E a \in cwHist.acked :
          /\ a.entry.position >= cwHist.cut[a.ch]
          /\ \E p \in DOMAIN cwHist.written[a.ch] : p >= cw.logs[a.ch].next

C17_ReadSinceExcludesStart ==
    cwLast.op = "ReadSince" =>
        cwLast.out = SelectSeq(cw.logs[cwLast.ch].entries,
                               LAMBDA e : e.position > cwLast.arg)

\* C18: Snapshot() holds for every channel the highest position a completed
\* Append returned, and no cursor for a channel without one, also while
\* Appends run concurrently and after a close and reopen.
C18_SnapshotIsHighestAppended ==
    /\ DOMAIN cwSnapshot(cw) = DOMAIN cwHist.done
    /\ \A ch \in DOMAIN cwHist.done : cwSnapshot(cw)[ch] = cwHist.done[ch]

----------------------------------------------------------------------------
(* Middleware Stack: call order *)

IsExecute == mwLast.op \in {"ExecuteModelCall", "ExecuteToolCall"}

\* the list without its final handler is the stack's middlewares, each once
EntersAllThenFinal ==
    /\ Len(mwLast.order) = Len(middlewares) + 1
    /\ mwLast.order[Len(mwLast.order)] = FinalHandler
    /\ \A i \in 1..Len(middlewares) :
          \E j \in 1..Len(middlewares) : mwLast.order[j] = middlewares[i]

\* the place of a middleware in the order of the Use calls
RegisteredAt(mw) == CHOOSE i \in 1..Len(registered) : registered[i] = mw

\* C19, as stated: ExecuteModelCall and ExecuteToolCall enter the registered
\* middlewares in strictly descending order of priority and call the final
\* handler last, whatever the order of registration.
C19_EntersInDescendingPriority ==
    IsExecute =>
        /\ EntersAllThenFinal
        /\ \A i, j \in 1..Len(middlewares) :
              i < j => mwLast.order[i].priority > mwLast.order[j].priority

\* C19, amended: ExecuteModelCall and ExecuteToolCall enter the registered
\* middlewares so that none is entered before one of higher priority, and
\* call the final handler last, whatever the order of registration.
C19_NoneBeforeHigherPriority ==
    IsExecute =>
        /\ EntersAllThenFinal
        /\ \A i, j \in 1..Len(middlewares) :
              i < j => mwLast.order[i].priority >= mwLast.order[j].priority

\* an Execute call on a stack of three middlewares that were registered
\* lowest priority last, two of them with the same priority
C19_Witness ==
    /\ IsExecute
    /\ Len(registered) = MaxMiddlewares
    /\ registered[1].priority = registered[2].priority
    /\ registered[3].priority < registered[1].priority

\* C21: of two middlewares of the same priority, the one passed to Use first
\* is entered first by ExecuteModelCall and ExecuteToolCall.
C21_EqualPriorityInRegistrationOrder ==
    IsExecute =>
        \A i, j \in 1..Len(middlewares) :
            ( /\ mwLast.order[i].priority = mwLast.order[j].priority
              /\ RegisteredAt(mwLast.order[i]) < RegisteredAt(mwLast.order[j]) )
            => i < j

Highest(ms) == MaxOf({ms[i].priority : i \in 1..Len(ms)})

\* C20: Start calls OnStart of the middleware of highest priority first, and
\* Stop calls OnStop of the middleware of highest priority last.
C20_StartHighFirstStopHighLast ==
    /\ (mwLast.op = "Start" /\ middlewares # <<>>) =>
          mwLast.order[1].priority = Highest(middlewares)
    /\ (mwLast.op = "Stop" /\ middlewares # <<>>) =>
          mwLast.order[Len(mwLast.order)].priority = Highest(middlewares)

----------------------------------------------------------------------------
(* Session: message ids *)

\* C22: no two messages of a session's transcript carry the same id, whether
\* the session assigned the id or the caller supplied it, also after a Resume
\* or a reopen.
C22_MessageIdsUnique ==
    \A i, j \in 1..Len(fs.messages) :
        i # j => fs.messages[i].id # fs.messages[j].id

----------------------------------------------------------------------------
(* Streaming execution: the output cap *)

StreamReturned == fn.name = "StreamExecute" /\ fn.done

\* what a chunk stands for in the output: the line and its newline
RECURSIVE ChunksText(_)
ChunksText(chunks) ==
    IF chunks = <<>> THEN <<>>
    ELSE LineText(Head(chunks).line) \o Newline \o ChunksText(Tail(chunks))

ChunksOf(chunks, isStderr) == SelectSeq(chunks, LAMBDA c : c.isStderr = isStderr)

\* C24: while the two readers run, in any interleaving, the characters
\* accumulated from stdout and stderr together never exceed the cap, and the
\* final Output is at most the cap long.
C24_AccumulatedWithinCap ==
    fn.name = "StreamExecute" =>
        /\ fn.acc.total <= maxBashOutputLen
        /\ TextLen(fn.acc.stdout) + TextLen(fn.acc.stderr) = fn.acc.total
        /\ fn.done => TextLen(fn.result.output) <= maxBashOutputLen

\* a run in which both streams wrote, stderr first, and the command wrote
\* more than the cap
C24_Witness ==
    /\ StreamReturned
    /\ Len(fn.emitted) >= 3
    /\ fn.emitted[1].isStderr
    /\ ~fn.emitted[2].isStderr
    /\ TextLen(ChunksText(fn.emitted)) > maxBashOutputLen
    /\ fn.acc.stderr # <<>>
    /\ fn.acc.stdout # <<>>

\* C25: the final Output is the concatenation of the chunks delivered to the
\* callback, in the order of their delivery, truncated to the cap.
C25_OutputIsChunksInOrder ==
    StreamReturned =>
        fn.result.output = TextPrefix(ChunksText(fn.emitted), maxBashOutputLen)

\* C26: output of exactly the cap is returned unchanged; output one character
\* longer is truncated to exactly the cap and the result's metadata says so.
C26_TruncationAtBoundary ==
    StreamReturned =>
        LET produced == combineOutput(ChunksText(ChunksOf(fn.emitted, FALSE)),
                                      ChunksText(ChunksOf(fn.emitted, TRUE)))
        IN  /\ TextLen(produced) = maxBashOutputLen => fn.result.output = produced
            /\ TextLen(produced) = maxBashOutputLen + 1 =>
                  /\ TextLen(fn.result.output) = maxBashOutputLen
                  /\ fn.result.data \ {"workdir", "duration_ms", "timeout_ms"} # {}

----------------------------------------------------------------------------
(* Checkpoint: the size limit *)

\* C27: Checkpoint with a valid name on an open session succeeds when the
\* serialized transcript is exactly MaxCheckpointBytes long; when it is one
\* byte longer it fails as too large, appends nothing to the WAL and leaves
\* the checkpoints as they were.
C27_CheckpointSizeBoundary ==
    [][ ( /\ lastOp'.op = "Checkpoint"
          /\ lastOp'.res \notin {"invalid", "closed"} )
        => /\ PayloadLen(fs.messages) = MaxCheckpointBytes => lastOp'.res = "ok"
           /\ PayloadLen(fs.messages) = MaxCheckpointBytes + 1 =>
                 /\ lastOp'.res = "toolarge"
                 /\ wlog' = wlog
                 /\ fs'.checkpoints = fs.checkpoints ]_vars

\* a Checkpoint refused for a transcript one byte over the limit, in a session
\* that holds a checkpoint of a transcript of exactly the limit
C27_Witness ==
    /\ lastOp.op = "Checkpoint"
    /\ lastOp.res = "toolarge"
    /\ PayloadLen(fs.messages) = MaxCheckpointBytes + 1
    /\ \E c \in DOMAIN fs.checkpoints :
          PayloadLen(fs.checkpoints[c].snapshot) = MaxCheckpointBytes

----------------------------------------------------------------------------
(* Properties of the agent loop *)

\* C23: with max_iterations = N, a loop whose model keeps returning tool
\* calls makes exactly N model calls and then returns the budget error: it
\* never makes an (N+1)-th call.
C23_ExactlyMaxIterationsCalls ==
    fn.name = "Loop" =>
        /\ fn.calls <= fn.max_iterations
        /\ fn.state = "Error" => fn.calls = fn.max_iterations

----------------------------------------------------------------------------
(* Properties of the compactor *)

\* C28: compaction runs if and only if the ratio of the tokens to the budget
\* is at least the threshold and the history is strictly longer than
\* preserve_count + 1.
C28_RunsIffThresholdAndLength ==
    (fn.name = "maybeCompact" /\ fn.state # "check") =>
        ( fn.events # <<>>
          <=> /\ TokenCount(fn.snapshot) * 100 >= fn.cfg.Threshold * CompactLimit
              /\ Len(fn.snapshot) > fn.cfg.PreserveCount + 1 )

\* C29: after the first failure the primary model is retried up to
\* max_retries times, and only then is the fallback model tried, once: the
\* first 1 + max_retries requests name the primary model and the fallback
\* model is named by the request after them alone.
C29_PrimaryRetriedBeforeFallback ==
    fn.name = "maybeCompact" =>
        /\ Len(fn.requests) <= fn.cfg.MaxRetries + 2
        /\ \A i \in 1..Len(fn.requests) :
              fn.requests[i] = IF i <= fn.cfg.MaxRetries + 1
                               THEN fn.cfg.SummaryModel ELSE fn.cfg.FallbackModel

----------------------------------------------------------------------------
(* Properties of Fork *)

\* C30: for every new_id that is not blank, Fork(new_id) returns a session
\* whose transcript is the parent's transcript at the time of the call (the
\* same messages in the same order) and that has no approval record, and
\* leaves the parent's transcript and WAL as they were.
C30_ForkCopiesTranscript ==
    [][ ( /\ fn.name = "Fork"
          /\ fn' # fn
          /\ fn'.last.res # "invalid"
          /\ fn'.open # fn.open \/ fn'.last.res = "error"
          /\ fn.open \subseteq fn'.open )
        => /\ fn'.last.res = "ok"
           /\ fn'.child.messages = fs.messages
           /\ DOMAIN fn'.child.approvals = {}
           /\ fs' = fs
           /\ wlog' = wlog ]_vars

----------------------------------------------------------------------------
(* Properties of the session's log collection *)

\* the entries of the log w that are no longer in the log w2
RemovedEntries(w, w2) ==
    { w.entries[i] : i \in { j \in 1..Len(w.entries) :
                               \A k \in 1..Len(w2.entries) : w2.entries[k] # w.entries[j] } }

\* C31: the session's log loses entries only while the session holds no
\* approval record, and then only entries positioned before the earliest
\* checkpoint of the index: no approval record is ever truncated.
C31_TruncationSparesApprovals ==
    [][ RemovedEntries(wlog, wlog') # {}
        => /\ DOMAIN fs'.approvals = {}
           /\ DOMAIN fs'.checkpoints # {}
           /\ \A e \in RemovedEntries(wlog, wlog') :
                 /\ e.type # recordApproval
                 /\ \A n \in DOMAIN fs'.checkpoints :
                       e.position < fs'.checkpoints[n].position ]_vars

\* a collection has cut the log of a session that has a transcript
C31_Witness ==
    /\ lastOp.op \in {"Checkpoint", "Resume"}
    /\ lastOp.res = "ok"
    /\ wlog.entries # <<>>
    /\ wlog.entries[1].position > 0
    /\ DOMAIN fs.approvals = {}

----------------------------------------------------------------------------
(* Properties of the whitelist *)

\* C32: the hash of the params does not depend on the order in which the
\* keys of a map are handed out, at any level of nesting: the key computed
\* by a call is the key every other order of the keys gives.
C32_HashIgnoresKeyOrder ==
    (fn.name = "Whitelist" /\ fn.last.op \in {"Add", "Allowed"}) =>
        \A o \in RangeOrders :
            fn.last.key = keyIn(fn.last.session, fn.last.tool, ParamsOf(fn.last.params), o)

\* a call on params with a nested map of two keys, its keys handed out in
\* the reverse of the sorted order
C32_Witness ==
    /\ fn.name = "Whitelist"
    /\ fn.last.op = "Allowed"
    /\ fn.last.res
    /\ fn.last.params = "nested"
    /\ fn.last.order = Reverse(KeyOrder)
    /\ \E e \in fn.added : e[3] = fn.last.params

\* C34: Allowed(session, tool, params) is true only if an approval was added
\* for the same session, the same tool and structurally equal params.
C34_AllowedOnlyForExactApproval ==
    (fn.name = "Whitelist" /\ fn.last.op = "Allowed" /\ fn.last.res) =>
        <<fn.last.session, fn.last.tool, fn.last.params>> \in fn.added

----------------------------------------------------------------------------
(* Properties of the queue under failed writes *)

\* C33: when persisting the record fails in Request, Approve, Reject or
\* Timeout, the call returns the error and the pending set, the lookup index
\* and the whitelist of the queue are as they were before the call.
C33_FailedPersistLeavesQueue ==
    [][ ( /\ qLast'.op \in {"Request", "Approve", "Reject", "Timeout"}
          /\ qLast'.res = "error" )
        => q' = q ]_vars

----------------------------------------------------------------------------
(* Properties of the session under failed writes *)

\* C35: a message whose Append returned an error is not in the transcript
\* after a reopen: the transcript that a successful reopen builds from the
\* log is the transcript the session held, which has the messages of the
\* successful Appends only.
C35_ReopenAgreesWithTranscript ==
    [][ (lastOp'.op = "Open" /\ lastOp'.res = "ok") => fs'.messages = fs.messages ]_vars


\* C36: the control cursor stored in a checkpoint is the position at which
\* the record of that checkpoint was appended, for every checkpoint of the
\* index, also after a failed append, a truncation and a reopen.
C36_CheckpointCursorIsItsPosition ==
    \A n \in DOMAIN fs.checkpoints :
        /\ "control" \in DOMAIN fs.checkpoints[n].payload.cursors
        /\ fs.checkpoints[n].payload.cursors["control"] = fs.checkpoints[n].position

----------------------------------------------------------------------------
(* Properties of the GC statistics *)

\* C40: after every GC run the statistics say what happened: AfterCount is
\* the number of records left in the index, Dropped is the number of records
\* the run removed, and TotalDropped is the number of records removed over
\* all runs, also when a run's WAL truncation failed.
C40_StatsMatchIndex ==
    (fn.name = "GCStatus" /\ qLast.op = "GC") =>
        /\ fn.metrics.last.AfterCount = Cardinality(DOMAIN rl.records)
        /\ fn.metrics.last.Dropped = fn.lastRemoved
        /\ fn.metrics.totalDropped = fn.removed

----------------------------------------------------------------------------
(* Properties of the automatic GC *)

\* the loops whose goroutine is alive
AliveLoops == { id \in LoopIds : fn.loops[id].state = "running" }

C38_OneLoopNoDeadlock ==
    fn.name = "AutoGC" =>
        /\ \A t \in Callers :
              fn.th[t].pc \in {"stopWait", "startWait"} =>
                  \/ doneClosed(fn.loops, fn.th[t].cur)
                  \/ fn.loops[fn.th[t].cur].state = "running"
                  \/ \E u \in Callers : fn.th[u].pc = "startGo" /\ fn.th[u].cur = fn.th[t].cur
        /\ Cardinality(AliveLoops) <= 1
        /\ (\A t \in Callers : fn.th[t].pc = "idle") => AliveLoops \subseteq {fn.gcTicker}

----------------------------------------------------------------------------
(* Properties of the event store *)

EventKey(evt) == <<evt.type, evt.bookmark.seq, evt.timestamp.t>>

EventCount(events, k) == Cardinality({ i \in 1..Len(events) : EventKey(events[i]) = k })

============================================================================
